---- MODULE Spec2Model ----
(***************************************************************************)
(* A model of the GPT-2 inference engine of browniu/transformer: the math  *)
(* kernel, the embedding tables, layer normalization, causal multi-head    *)
(* attention, the feed-forward sublayer, the transformer block, and the    *)
(* model class GPT2 with forward / generateNextToken / generate.           *)
(*                                                                         *)
(* Numbers.  The JavaScript code computes on IEEE doubles.  Here a number  *)
(* is an integer, or one of the two special values NegInf (-Infinity) and  *)
(* NaN.  Activations and weights are integers (division is \div), and a    *)
(* probability is a fixed-point number counted in units of 1/PScale, so    *)
(* that rounding exists in the model as it does in the code.  Math.exp is  *)
(* rendered in base 2 with ExpOne standing for exp(0).  Array indices are  *)
(* 1-based in sequences; a token ID and a sampled index keep the 0-based   *)
(* value the code uses.                                                    *)
(***************************************************************************)
EXTENDS Integers, Sequences, FiniteSets, TLC

VARIABLES model, result, caller

vars == <<model, result, caller>>

-----------------------------------------------------------------------------
(* Bounds of the model *)

\* a probability is counted in units of 1/PScale; Math.random() is one of
\* 0/PScale .. (PScale-1)/PScale
PScale == 8

\* exp(0) in fixed point
ExpOne == 4

\* the logits drawn for the sampling specification lie in -MaxLogit..MaxLogit
MaxLogit == 1

\* the vocabulary size of the sampling specification
SampleVocab == 3

\* the score matrices drawn for the attention-mask specification are n x n
\* with n <= MaxMaskLen and entries in -MaxScore..MaxScore
MaxMaskLen == 3

MaxScore == 1

\* the configurations: vocabSize, dModel and maxSeqLen, and the largest
\* numLayers and numHeads
ModelVocab == 3

ModelDim == 3

ModelSeqLen == 2

MaxLayers == 1

MaxHeads == 3

\* the longest token sequence handed to forward / generateNextToken
MaxTokens == 3

\* the longest initialTokens and largest maxLength handed to generate
MaxInit == 3

MaxGen == 2

\* the matrices handed to matrixMultiply have at most MaxMatDim rows and
\* columns, and are filled from one of MaxMatSalt + 1 streams of values
MaxMatDim == 2

MaxMatSalt == 2

\* the number of setWeights calls and of writes into loaded arrays made on
\* one model, after which no setWeights call is made
MaxLoads == 1

\* the largest magnitude of a number that Array.isArray is asked about
MaxNumber == 512

\* layer normalization on its own: the steepest feature vector, the longest
\* input matrix and the largest batch
MaxNormSlope == 2

MaxNormLen == 2

MaxNormBatch == 2

-----------------------------------------------------------------------------
(* The number domain *)

NegInf == -1073741824

NaN == 1073741823

IsFinite(x) == x # NegInf /\ x # NaN

\* a + b (no operand is ever +Infinity in this model)
NumAdd(a, b) ==
  IF a = NaN \/ b = NaN THEN NaN
  ELSE IF a = NegInf \/ b = NegInf THEN NegInf
  ELSE a + b

\* a - b where b >= a (the only use is val - max in softmax)
NumSub(a, b) ==
  IF a = NaN \/ b = NaN THEN NaN
  ELSE IF a = NegInf /\ b = NegInf THEN NaN
  ELSE IF a = NegInf THEN NegInf
  ELSE a - b

\* a * b for a weight or activation pair
NumMul(a, b) ==
  IF a = NaN \/ b = NaN THEN NaN
  ELSE IF a = NegInf \/ b = NegInf
       THEN (IF a = 0 \/ b = 0 THEN NaN
             ELSE IF (a < 0) = (b < 0) THEN NaN ELSE NegInf)
  ELSE a * b

\* a / b for a finite divisor b > 0
NumDiv(a, b) ==
  IF a = NaN \/ b = NaN THEN NaN
  ELSE IF a = NegInf THEN NegInf
  ELSE a \div b

\* a > b as JavaScript compares numbers: false as soon as one is NaN
NumGt(a, b) ==
  IF a = NaN \/ b = NaN THEN FALSE
  ELSE IF a = NegInf THEN FALSE
  ELSE IF b = NegInf THEN TRUE
  ELSE a > b

\* a <= b as JavaScript compares numbers
NumLeq(a, b) ==
  IF a = NaN \/ b = NaN THEN FALSE
  ELSE IF a = NegInf THEN TRUE
  ELSE IF b = NegInf THEN FALSE
  ELSE a <= b

RECURSIVE Pow2(_)
Pow2(n) == IF n <= 0 THEN 1 ELSE 2 * Pow2(n - 1)

\* Math.exp(d) for d <= 0, in units of 1/ExpOne; it underflows to 0
Exp(d) ==
  IF d = NaN THEN NaN
  ELSE IF d = NegInf THEN 0
  ELSE IF -d > 8 THEN 0
  ELSE ExpOne \div Pow2(-d)

\* Math.sqrt on a non-negative integer, rounded down
ISqrt(n) == CHOOSE r \in 0..(n + 1) : r * r <= n /\ (r + 1) * (r + 1) > n

\* left fold of a sequence of numbers with NumAdd, as Array.reduce does
RECURSIVE SumSeq(_)
SumSeq(s) == IF Len(s) = 0 THEN 0 ELSE NumAdd(SumSeq(SubSeq(s, 1, Len(s) - 1)), s[Len(s)])

\* the outcome of a call: a value, or the error that was thrown
Ok(v) == [status |-> "ok", value |-> v]

Throw(kind) == [status |-> kind]

\* run F on the value of r unless r is an error, which is propagated
Bind(r, F(_)) == IF r.status = "ok" THEN F(r.value) ELSE r

\* Array.prototype.slice(start, end) on a sequence, with 0-based arguments
Slice(s, start, end) ==
  LET n == Len(s)
      from == IF start < 0 THEN (IF n + start < 0 THEN 0 ELSE n + start)
              ELSE (IF start > n THEN n ELSE start)
      to == IF end < 0 THEN (IF n + end < 0 THEN 0 ELSE n + end)
            ELSE (IF end > n THEN n ELSE end)
  IN  SubSeq(s, from + 1, to)

-----------------------------------------------------------------------------
(* Math kernel (utils/math.js) *)

\* the arrays the kernel returns are built in full when they are returned:
\* an array, and an array of arrays, with every cell computed
ArrayOf(row) == row \o <<>>

MatrixOf(matrix) == [i \in 1..Len(matrix) |-> ArrayOf(matrix[i])] \o <<>>

\* the inner sum of matrixMultiply for result cell (i, j)
RECURSIVE DotProduct(_, _, _, _, _)
DotProduct(a, b, i, j, k) ==
  IF k = 0 THEN 0
  ELSE NumAdd(DotProduct(a, b, i, j, k - 1), NumMul(a[i][k], b[k][j]))

\* matrixMultiply(a, b): n is read from a[0] and p from b[0]; the loop reads
\* b[k] for every k < n, which throws a TypeError when b has fewer rows, and
\* never looks at the rows of b beyond n
matrixMultiply(a, b) ==
  IF Len(a) = 0 \/ Len(b) = 0 THEN Throw("TypeError")
  ELSE LET m == Len(a)
           n == Len(a[1])
           p == Len(b[1])
       IN  IF p > 0 /\ n > Len(b) THEN Throw("TypeError")
           ELSE Ok(MatrixOf([i \in 1..m |-> [j \in 1..p |-> DotProduct(a, b, i, j, n)]]))

\* transpose(matrix): cols is read from matrix[0]
transpose(matrix) ==
  IF Len(matrix) = 0 THEN Throw("TypeError")
  ELSE Ok(MatrixOf([j \in 1..Len(matrix[1]) |-> [i \in 1..Len(matrix) |-> matrix[i][j]]]))

\* Math.max(...x): -Infinity for no argument, NaN as soon as one is NaN
RECURSIVE MathMax(_)
MathMax(x) ==
  IF Len(x) = 0 THEN NegInf
  ELSE LET rest == MathMax(SubSeq(x, 1, Len(x) - 1))
           last == x[Len(x)]
       IN  IF rest = NaN \/ last = NaN THEN NaN
           ELSE IF NumGt(last, rest) THEN last ELSE rest

\* softmax(x): subtract the maximum, exponentiate, divide by the sum
softmax(x) ==
  LET max == MathMax(x)
      exp == ArrayOf([i \in 1..Len(x) |-> Exp(NumSub(x[i], max))])
      sum == SumSeq(exp)
  IN  ArrayOf([i \in 1..Len(x) |->
                 IF exp[i] = NaN \/ sum = NaN \/ sum = 0 THEN NaN
                 ELSE (exp[i] * PScale) \div sum])

batchSoftmax(matrix) == ArrayOf([i \in 1..Len(matrix) |-> softmax(matrix[i])])

\* scaleScores(scores, scale) with scale = 1 / sqrtDK
scaleScores(scores, sqrtDK) ==
  MatrixOf([i \in 1..Len(scores) |->
              [j \in 1..Len(scores[i]) |-> NumDiv(scores[i][j], sqrtDK)]])

\* faulty variant: the mask with the two loop indices exchanged
generateCausalMask_transposed(seqLen) ==
  [i \in 1..seqLen |-> [j \in 1..seqLen |-> IF i >= j + 1 THEN NegInf ELSE 0]]

\* faulty variant: the mask that hides the diagonal too
generateCausalMask_diagonalMasked(seqLen) ==
  [i \in 1..seqLen |-> [j \in 1..seqLen |-> IF j >= i THEN NegInf ELSE 0]]

\* generateCausalMask(seqLen): zeros, then -Infinity for every j > i
generateCausalMask(seqLen) ==
  [i \in 1..seqLen |-> [j \in 1..seqLen |-> IF j >= i + 1 THEN NegInf ELSE 0]]

\* applyMask(scores, mask): element-wise scores + mask
applyMask(scores, mask) ==
  MatrixOf([i \in 1..Len(scores) |->
              [j \in 1..Len(scores[i]) |-> NumAdd(scores[i][j], mask[i][j])]])

\* matrixAdd(a, b): element-wise a + b over the shape of a; a missing row of
\* b throws, a missing cell of b is undefined and the sum NaN
matrixAdd(a, b) ==
  IF Len(b) < Len(a) THEN Throw("TypeError")
  ELSE Ok(MatrixOf([i \in 1..Len(a) |-> [j \in 1..Len(a[i]) |->
             IF j > Len(b[i]) THEN NaN ELSE NumAdd(a[i][j], b[i][j])]]))

\* gelu(x), rounded to an integer
gelu(x) == IF x = NaN THEN NaN ELSE IF x > 0 THEN x ELSE 0

batchGelu(matrix) ==
  MatrixOf([i \in 1..Len(matrix) |-> [j \in 1..Len(matrix[i]) |-> gelu(matrix[i][j])]])

\* the k-th value of the Math.random() stream of a construction, as a weight
\* in -2..2
RandomWeight(k) == ((k * k * k + 3 * k * k + (k \div 2)) % 5) - 2

\* initializeWeights(rows, cols): a rows x cols matrix filled row by row from
\* the Math.random() stream; salt is the position of the stream at the call
initializeWeights(rows, cols, salt) ==
  [i \in 1..rows |-> [j \in 1..cols |-> RandomWeight(7 * salt + (i - 1) * cols + j)]]

\* Array(n).fill(v)
Fill(n, v) == [i \in 1..n |-> v]

-----------------------------------------------------------------------------
(* Token embedding (core/Embedding.js) *)

\* new TokenEmbedding(vocabSize, dModel): a vocabSize x dModel random table
TokenEmbedding_constructor(vocabSize, dModel) ==
  [vocabSize |-> vocabSize,
   dModel |-> dModel,
   embedding |-> initializeWeights(vocabSize, dModel, 0)]

\* what a returned array is: a new array, or the array that a component
\* stores as row `row` of its table
NewArray == [kind |-> "new"]

StoredArray(row) == [kind |-> "stored", row |-> row]

\* faulty variant: the stored row itself is returned
TokenEmbedding_returnedRow_noCopy(te, id) == StoredArray(id + 1)

\* the array returned for one ID: [...this.embedding[id]] spreads the stored
\* row into a new array
TokenEmbedding_returnedRow(te, id) == NewArray

\* faulty variant: the lookup without the lower bound: a negative ID reads an
\* undefined row, whose spread throws a TypeError
TokenEmbedding_lookup_noLowerBound(te, id) ==
  IF id >= te.vocabSize THEN Throw("TokenOutOfRangeError")
  ELSE IF id < 0 THEN Throw("TypeError")
  ELSE Ok(te.embedding[id + 1])

\* the callback of tokenIds.map: throw on an ID outside [0, vocabSize), else
\* a copy of the row of the table
TokenEmbedding_lookup(te, id) ==
  IF id < 0 \/ id >= te.vocabSize THEN Throw("TokenOutOfRangeError")
  ELSE Ok(te.embedding[id + 1])

\* TokenEmbedding.forward(tokenIds): the first lookup that throws ends the
\* map, and no matrix is returned
TokenEmbedding_forward(te, tokenIds) ==
  LET rows == [k \in 1..Len(tokenIds) |-> TokenEmbedding_lookup(te, tokenIds[k])]
      failed == {k \in 1..Len(tokenIds) : rows[k].status # "ok"}
  IN  IF failed # {}
      THEN rows[CHOOSE k \in failed : \A l \in failed : k <= l]
      ELSE Ok(ArrayOf([k \in 1..Len(tokenIds) |-> rows[k].value]))

-----------------------------------------------------------------------------
(* Learned positional encoding (core/PositionalEncoding.js) *)

LearnedPositionalEncoding_constructor(maxSeqLen, dModel) ==
  [maxSeqLen |-> maxSeqLen,
   dModel |-> dModel,
   positionEmbedding |-> initializeWeights(maxSeqLen, dModel, 1)]

\* LearnedPositionalEncoding.forward(seqLen): the first seqLen rows, copied
LearnedPositionalEncoding_forward(pe, seqLen) ==
  IF seqLen > pe.maxSeqLen THEN Throw("SequenceTooLongError")
  ELSE Ok(Slice(pe.positionEmbedding, 0, seqLen))

\* the array returned for one position: .map(pos => [...pos]) spreads the
\* stored row into a new array
LearnedPositionalEncoding_returnedRow(pe, pos) == NewArray

\* sin(pos) and cos(pos) for pos = 0, 1, 2, ... in thousandths
SinMilli == <<0, 841, 909, 141, -757, -959>>

CosMilli == <<1000, 540, -416, -990, -654, 284>>

\* SinusoidalPositionalEncoding.createPositionEncoding(maxLen, dModel) in
\* units of 1/PScale.  Dimensions 0 and 1 have divTerm 1, so that they hold
\* sin(pos) and cos(pos); from dimension 2 on divTerm is so large that the
\* angle rounds to 0, the sine to 0 and the cosine to 1.
SinusoidalPositionalEncoding_createPositionEncoding(maxLen, dModel) ==
  [p \in 1..maxLen |->
     [d \in 1..dModel |->
        IF (d - 1) % 2 = 0
        THEN (IF d = 1 THEN (SinMilli[p] * PScale) \div 1000 ELSE 0)
        ELSE (IF d = 2 THEN (CosMilli[p] * PScale) \div 1000 ELSE PScale)]]

\* new SinusoidalPositionalEncoding(maxSeqLen, dModel)
SinusoidalPositionalEncoding_constructor(maxSeqLen, dModel) ==
  [maxSeqLen |-> maxSeqLen, dModel |-> dModel,
   positionEncoding |->
     SinusoidalPositionalEncoding_createPositionEncoding(maxSeqLen, dModel)]

\* SinusoidalPositionalEncoding.forward(seqLen)
SinusoidalPositionalEncoding_forward(pe, seqLen) ==
  IF seqLen > pe.maxSeqLen THEN Throw("SequenceTooLongError")
  ELSE Ok(Slice(pe.positionEncoding, 0, seqLen))

\* the array returned for one position: .map(pos => [...pos]) spreads the
\* stored row into a new array
SinusoidalPositionalEncoding_returnedRow(pe, pos) == NewArray

-----------------------------------------------------------------------------
(* Layer normalization (core/LayerNorm.js) *)

\* new LayerNorm(dModel): gamma all 1, beta all 0
LayerNorm_constructor(dModel) ==
  [dModel |-> dModel, gamma |-> Fill(dModel, 1), beta |-> Fill(dModel, 0)]

\* the printed forms of the numbers of the model
NumberNames == {ToString(n) : n \in (-MaxNumber..MaxNumber) \cup {NegInf, NaN}}

\* Array.isArray(v): a number of the model is an integer, an array a
\* sequence; the two are told apart by their printed form
IsArray(v) == ToString(v) \notin NumberNames

\* Math.sqrt(variance + eps): eps keeps the result positive
LayerNorm_std(variance) == IF ISqrt(variance) = 0 THEN 1 ELSE ISqrt(variance)

\* (val - mean) / std on every feature, then gamma[i] * val + beta[i]
LayerNorm_scaled(ln, features, mean, std) ==
  LET normalized == [i \in 1..Len(features) |-> (features[i] - mean) \div std]
  IN  ArrayOf([i \in 1..Len(features) |-> ln.gamma[i] * normalized[i] + ln.beta[i]])

\* the normalization of one feature vector in the 2D branch of forward:
\* mean and variance are computed in place
LayerNorm_features(ln, features) ==
  LET mean == SumSeq(features) \div ln.dModel
      variance == SumSeq([i \in 1..Len(features) |->
                            (features[i] - mean) * (features[i] - mean)]) \div ln.dModel
      std == LayerNorm_std(variance)
  IN  LayerNorm_scaled(ln, features, mean, std)

\* faulty variant: computeStats with the sample variance (divisor dModel - 1)
LayerNorm_computeStats_sampleVariance(ln, x) ==
  LET seqLen == Len(x[1])
      meanOf(features) == SumSeq(features) \div ln.dModel
      varianceOf(features) ==
        SumSeq([i \in 1..Len(features) |->
                  (features[i] - meanOf(features)) * (features[i] - meanOf(features))])
        \div (ln.dModel - 1)
  IN  [means |-> [b \in 1..Len(x) |-> [s \in 1..seqLen |-> meanOf(x[b][s])]],
       variances |-> [b \in 1..Len(x) |-> [s \in 1..seqLen |-> varianceOf(x[b][s])]]]

\* LayerNorm.computeStats(x): the mean and the variance of every feature
\* vector of a 3D input; the sequence length is that of the first batch entry
LayerNorm_computeStats(ln, x) ==
  LET seqLen == Len(x[1])
      meanOf(features) == SumSeq(features) \div ln.dModel
      varianceOf(features) ==
        SumSeq([i \in 1..Len(features) |->
                  (features[i] - meanOf(features)) * (features[i] - meanOf(features))])
        \div ln.dModel
  IN  [means |-> [b \in 1..Len(x) |-> [s \in 1..seqLen |-> meanOf(x[b][s])]],
       variances |-> [b \in 1..Len(x) |-> [s \in 1..seqLen |-> varianceOf(x[b][s])]]]

\* LayerNorm.forward(x): x[0][0] is read to tell a 2D input from a 3D one,
\* which throws a TypeError when x has no row
LayerNorm_forward(ln, x) ==
  IF Len(x) = 0 THEN Throw("TypeError")
  ELSE IF Len(x[1]) = 0 \/ ~IsArray(x[1][1])
  THEN Ok(ArrayOf([s \in 1..Len(x) |-> LayerNorm_features(ln, x[s])]))
  ELSE LET stats == LayerNorm_computeStats(ln, x)
       IN  Ok([b \in 1..Len(x) |->
                 [s \in 1..Len(x[1]) |->
                    LayerNorm_scaled(ln, x[b][s], stats.means[b][s],
                                     LayerNorm_std(stats.variances[b][s]))]])

-----------------------------------------------------------------------------
(* Attention (core/Attention.js) *)

\* a % b of JavaScript for a >= 0 and b >= 0: NaN when b is 0
JsMod(a, b) == IF b = 0 THEN NaN ELSE a % b

\* new AttentionHead(dModel, dK, dV)
AttentionHead_constructor(dModel, dK, dV, salt) ==
  [dModel |-> dModel, dK |-> dK, dV |-> dV,
   W_q |-> initializeWeights(dModel, dK, salt),
   W_k |-> initializeWeights(dModel, dK, salt + 1),
   W_v |-> initializeWeights(dModel, dV, salt + 2)]

\* a product of probabilities (units of 1/PScale) and activations, brought
\* back to the unit of the activations
FromFixedPoint(matrix) ==
  MatrixOf([i \in 1..Len(matrix) |->
              [j \in 1..Len(matrix[i]) |-> NumDiv(matrix[i][j], PScale)]])

\* faulty variant: attention weights computed without the causal mask
AttentionHead_weights_unmasked(scaledScores, useCausalMask) ==
  batchSoftmax(scaledScores)

\* steps 4 and 5 of AttentionHead.forward: the mask, then the row-wise softmax
AttentionHead_weights(scaledScores, useCausalMask) ==
  LET seqLen == Len(scaledScores)
      maskedScores == IF useCausalMask
                      THEN applyMask(scaledScores, generateCausalMask(seqLen))
                      ELSE scaledScores
  IN  batchSoftmax(maskedScores)

\* AttentionHead.forward(x, useCausalMask)
AttentionHead_forward(head, x, useCausalMask) ==
  Bind(matrixMultiply(x, head.W_q), LAMBDA Q :
  Bind(matrixMultiply(x, head.W_k), LAMBDA K :
  Bind(matrixMultiply(x, head.W_v), LAMBDA V :
  Bind(transpose(K), LAMBDA K_transposed :
  Bind(matrixMultiply(Q, K_transposed), LAMBDA scores :
    LET scaledScores == scaleScores(scores, ISqrt(head.dK))
        attentionWeights == AttentionHead_weights(scaledScores, useCausalMask)
    IN  Bind(matrixMultiply(attentionWeights, V), LAMBDA attentionOutput :
          Ok(FromFixedPoint(attentionOutput))))))))

\* new MultiHeadAttention(dModel, numHeads): it checks divisibility itself
MultiHeadAttention_constructor(dModel, numHeads, salt) ==
  IF JsMod(dModel, numHeads) # 0 THEN Throw("ConfigurationError")
  ELSE LET dK == dModel \div numHeads
           dV == dModel \div numHeads
       IN  Ok([dModel |-> dModel, numHeads |-> numHeads, dK |-> dK, dV |-> dV,
               heads |-> [h \in 1..numHeads |->
                            AttentionHead_constructor(dModel, dK, dV, salt + 3 * h)],
               W_o |-> initializeWeights(dModel, dModel, salt + 1)])

\* faulty variant: the row of concatenateHeads with the last head's features
\* first
RECURSIVE ConcatRow_lastHeadFirst(_, _, _)
ConcatRow_lastHeadFirst(headOutputs, s, h) ==
  IF h = 0 THEN <<>>
  ELSE headOutputs[h][s] \o ConcatRow_lastHeadFirst(headOutputs, s, h - 1)

\* the row of concatenateHeads for position s: head 0's features first
RECURSIVE ConcatRow(_, _, _)
ConcatRow(headOutputs, s, h) ==
  IF h = 0 THEN <<>> ELSE ConcatRow(headOutputs, s, h - 1) \o headOutputs[h][s]

\* MultiHeadAttention.concatenateHeads(headOutputs, seqLen)
concatenateHeads(mha, headOutputs, seqLen) ==
  ArrayOf([s \in 1..seqLen |-> ConcatRow(headOutputs, s, mha.numHeads)])

\* MultiHeadAttention.forward(x, useCausalMask)
MultiHeadAttention_forward(mha, x, useCausalMask) ==
  LET seqLen == Len(x)
      outs == [h \in 1..Len(mha.heads) |->
                 AttentionHead_forward(mha.heads[h], x, useCausalMask)]
  IN  IF \E h \in 1..Len(outs) : outs[h].status # "ok"
      THEN Throw("TypeError")
      ELSE LET headOutputs == [h \in 1..Len(outs) |-> outs[h].value]
               concatenated == concatenateHeads(mha, headOutputs, seqLen)
           IN  matrixMultiply(concatenated, mha.W_o)

-----------------------------------------------------------------------------
(* Feed-forward sublayer (core/FeedForward.js) *)

FeedForward_constructor(dModel, dFF, salt) ==
  [dModel |-> dModel, dFF |-> dFF,
   W1 |-> initializeWeights(dModel, dFF, salt),
   b1 |-> Fill(dFF, 0),
   W2 |-> initializeWeights(dFF, dModel, salt + 1),
   b2 |-> Fill(dModel, 0)]

\* row.map((val, i) => val + b[i]) on every row
AddBias(matrix, b) ==
  MatrixOf([i \in 1..Len(matrix) |-> [j \in 1..Len(matrix[i]) |->
     IF j > Len(b) THEN NaN ELSE NumAdd(matrix[i][j], b[j])]])

\* FeedForward.forward(x)
FeedForward_forward(ff, x) ==
  Bind(matrixMultiply(x, ff.W1), LAMBDA linear1 :
    LET activated == batchGelu(AddBias(linear1, ff.b1))
    IN  Bind(matrixMultiply(activated, ff.W2), LAMBDA linear2 :
          Ok(AddBias(linear2, ff.b2))))

-----------------------------------------------------------------------------
(* Transformer block (models/TransformerBlock.js) *)

\* new TransformerBlock(dModel, numHeads, dFF, dropout)
TransformerBlock_constructor(dModel, numHeads, dFF, dropout, salt) ==
  Bind(MultiHeadAttention_constructor(dModel, numHeads, salt), LAMBDA attention :
    Ok([dModel |-> dModel, numHeads |-> numHeads, dFF |-> dFF, dropout |-> dropout,
        attention |-> attention,
        feedForward |-> FeedForward_constructor(dModel, dFF, salt + 2),
        ln1 |-> LayerNorm_constructor(dModel),
        ln2 |-> LayerNorm_constructor(dModel)]))

\* TransformerBlock.forward(x, useCausalMask): pre-LN, two residuals
TransformerBlock_forward(block, x, useCausalMask) ==
  Bind(LayerNorm_forward(block.ln1, x), LAMBDA normalized1 :
  Bind(MultiHeadAttention_forward(block.attention, normalized1, useCausalMask),
       LAMBDA attentionOutput :
  Bind(matrixAdd(x, attentionOutput), LAMBDA residual1 :
  Bind(LayerNorm_forward(block.ln2, residual1), LAMBDA normalized2 :
  Bind(FeedForward_forward(block.feedForward, normalized2), LAMBDA ffOutput :
    matrixAdd(residual1, ffOutput))))))

-----------------------------------------------------------------------------
(* The model class (models/GPT2.js) *)

\* faulty variant: the constructor without its own validation
GPT2_configInvalid_dropped(dModel, numHeads) == FALSE

\* the validation of the constructor: dModel % numHeads !== 0
GPT2_configInvalid(dModel, numHeads) == JsMod(dModel, numHeads) # 0

\* new GPT2(config).  The outcome also lists, in `built`, the components
\* that were constructed before the constructor returned or threw.  A dFF
\* of 0 stands for an absent (falsy) dFF.
GPT2_constructor(config) ==
  LET vocabSize == config.vocabSize
      dModel == config.dModel
      numLayers == config.numLayers
      numHeads == config.numHeads
      dFF == IF config.dFF # 0 THEN config.dFF ELSE config.dModel * 4
      maxSeqLen == config.maxSeqLen
      dropout == config.dropout
  IN  IF GPT2_configInvalid(dModel, numHeads)
      THEN [status |-> "ConfigurationError", built |-> <<>>]
      ELSE LET tokenEmbedding == TokenEmbedding_constructor(vocabSize, dModel)
               positionalEncoding ==
                 LearnedPositionalEncoding_constructor(maxSeqLen, dModel)
               blocks == [i \in 1..numLayers |->
                            TransformerBlock_constructor(dModel, numHeads, dFF, dropout,
                                                         5 * i)]
           IN  IF \E i \in 1..numLayers : blocks[i].status # "ok"
               THEN [status |-> "ConfigurationError",
                     built |-> <<"tokenEmbedding", "positionalEncoding">>]
               ELSE [status |-> "ok",
                     built |-> <<"tokenEmbedding", "positionalEncoding",
                                 "transformerBlocks", "finalLayerNorm", "lmHead",
                                 "lmBias">>,
                     value |->
                       [constructed |-> TRUE,
                        vocabSize |-> vocabSize, dModel |-> dModel,
                        numLayers |-> numLayers, numHeads |-> numHeads,
                        dFF |-> dFF, maxSeqLen |-> maxSeqLen, dropout |-> dropout,
                        tokenEmbedding |-> tokenEmbedding,
                        positionalEncoding |-> positionalEncoding,
                        transformerBlocks |-> [i \in 1..numLayers |-> blocks[i].value],
                        finalLayerNorm |-> LayerNorm_constructor(dModel),
                        lmHead |-> initializeWeights(dModel, vocabSize, 2),
                        lmBias |-> Fill(vocabSize, 0)]]

\* GPT2.getParameterCount(): a sum over the configuration, not over the
\* tensors
GPT2_getParameterCount(gpt) ==
  LET paramsPerBlock ==
        gpt.numHeads * (4 * gpt.dModel * (gpt.dModel \div gpt.numHeads))
        + 2 * gpt.dModel * gpt.dFF + gpt.dFF + gpt.dModel
        + 2 * gpt.dModel
  IN  gpt.vocabSize * gpt.dModel
      + gpt.maxSeqLen * gpt.dModel
      + gpt.numLayers * paramsPerBlock
      + 2 * gpt.dModel
      + gpt.dModel * gpt.vocabSize + gpt.vocabSize

\* the loop of forward over the first n transformer blocks
RECURSIVE GPT2_applyBlocks(_, _, _)
GPT2_applyBlocks(gpt, hiddenStates, n) ==
  IF n = 0 THEN Ok(hiddenStates)
  ELSE Bind(GPT2_applyBlocks(gpt, hiddenStates, n - 1), LAMBDA h :
         TransformerBlock_forward(gpt.transformerBlocks[n], h, TRUE))

\* faulty variant: forward that hands out the probabilities as the logits
\* when returnLogits is false
GPT2_forwardBody_probabilitiesAsLogits(gpt, tokenIds, returnLogits) ==
  LET seqLen == Len(tokenIds)
  IN  Bind(TokenEmbedding_forward(gpt.tokenEmbedding, tokenIds), LAMBDA tokenEmbeddings :
      Bind(LearnedPositionalEncoding_forward(gpt.positionalEncoding, seqLen),
           LAMBDA positionEmbeddings :
      Bind(matrixAdd(tokenEmbeddings, positionEmbeddings), LAMBDA embedded :
      Bind(GPT2_applyBlocks(gpt, embedded, gpt.numLayers), LAMBDA hiddenStates :
      Bind(LayerNorm_forward(gpt.finalLayerNorm, hiddenStates), LAMBDA normalized :
      Bind(matrixMultiply(normalized, gpt.lmHead), LAMBDA logits :
        LET logitsWithBias == AddBias(logits, gpt.lmBias)
        IN  IF ~returnLogits
            THEN Ok([logits |-> batchSoftmax(logitsWithBias),
                     probabilities |-> batchSoftmax(logitsWithBias),
                     hiddenStates |-> normalized])
            ELSE Ok([logits |-> logitsWithBias, hiddenStates |-> normalized])))))))

\* GPT2.forward from the token embedding on (lines 199-245)
GPT2_forwardBody(gpt, tokenIds, returnLogits) ==
  LET seqLen == Len(tokenIds)
  IN  Bind(TokenEmbedding_forward(gpt.tokenEmbedding, tokenIds), LAMBDA tokenEmbeddings :
      Bind(LearnedPositionalEncoding_forward(gpt.positionalEncoding, seqLen),
           LAMBDA positionEmbeddings :
      Bind(matrixAdd(tokenEmbeddings, positionEmbeddings), LAMBDA embedded :
      Bind(GPT2_applyBlocks(gpt, embedded, gpt.numLayers), LAMBDA hiddenStates :
      Bind(LayerNorm_forward(gpt.finalLayerNorm, hiddenStates), LAMBDA normalized :
      Bind(matrixMultiply(normalized, gpt.lmHead), LAMBDA logits :
        LET logitsWithBias == AddBias(logits, gpt.lmBias)
        IN  IF ~returnLogits
            THEN Ok([logits |-> logitsWithBias,
                     probabilities |-> batchSoftmax(logitsWithBias),
                     hiddenStates |-> normalized])
            ELSE Ok([logits |-> logitsWithBias, hiddenStates |-> normalized])))))))

\* faulty variant: forward without its length check: the embedding lookup runs first
GPT2_forward_noLengthCheck(gpt, tokenIds, returnLogits) ==
  GPT2_forwardBody(gpt, tokenIds, returnLogits)

\* GPT2.forward(tokenIds, returnLogits): the length check comes first
GPT2_forward(gpt, tokenIds, returnLogits) ==
  IF Len(tokenIds) > gpt.maxSeqLen THEN Throw("SequenceTooLongError")
  ELSE GPT2_forwardBody(gpt, tokenIds, returnLogits)

\* the topK argument: null, or a number
TopKNull == [isNull |-> TRUE]

TopKOf(k) == [isNull |-> FALSE, k |-> k]

\* lastLogits.map(val => val / temperature)
GPT2_scaledLogits(lastLogits, temperature) ==
  [i \in 1..Len(lastLogits) |-> NumDiv(lastLogits[i], temperature)]

\* whether entry i comes before entry j after indexed.sort((a, b) => b.val -
\* a.val): the larger value first and, the sort being stable, the smaller
\* index first among equal values
GPT2_sortsBefore(scaledLogits, i, j) ==
  \/ NumGt(scaledLogits[i], scaledLogits[j])
  \/ (~NumGt(scaledLogits[j], scaledLogits[i]) /\ i < j)

\* the 0-based indices of scaledLogits in the order indexed.sort leaves them
GPT2_sortedIndices(scaledLogits) ==
  LET n == Len(scaledLogits)
  IN  [r \in 1..n |->
         (CHOOSE i \in 1..n :
            Cardinality({j \in 1..n : j # i /\ GPT2_sortsBefore(scaledLogits, j, i)}) = r - 1)
         - 1]

\* faulty variant: the top K chosen by a threshold: every entry that is not smaller
\* than the K-th largest value
GPT2_topKIndices_threshold(scaledLogits, k) ==
  LET sorted == GPT2_sortedIndices(scaledLogits)
  IN  IF k <= 0 \/ Len(sorted) = 0 THEN {}
      ELSE LET cut == scaledLogits[sorted[IF k > Len(sorted) THEN Len(sorted) ELSE k] + 1]
           IN  {i - 1 : i \in {j \in 1..Len(scaledLogits) : ~NumGt(cut, scaledLogits[j])}}

\* new Set(indexed.slice(0, topK).map(item => item.idx))
GPT2_topKIndices(scaledLogits, k) ==
  LET kept == Slice(GPT2_sortedIndices(scaledLogits), 0, k)
  IN  {kept[r] : r \in 1..Len(kept)}

\* the candidate logits: every entry outside the top K becomes -Infinity when
\* topK is given and smaller than vocabSize
GPT2_candidateLogits(scaledLogits, vocabSize, topK) ==
  IF ~topK.isNull /\ topK.k < vocabSize
  THEN LET topKIndices == GPT2_topKIndices(scaledLogits, topK.k)
       IN  [i \in 1..Len(scaledLogits) |->
              IF (i - 1) \in topKIndices THEN scaledLogits[i] ELSE NegInf]
  ELSE scaledLogits

\* faulty variant: the test of the sampling loop with a strict comparison
GPT2_sampleTest_strict(random, cumulative) ==
  ~NumLeq(cumulative, random) /\ random # NaN /\ cumulative # NaN

\* the test of the sampling loop: random <= cumulative
GPT2_sampleTest(random, cumulative) == NumLeq(random, cumulative)

\* the sampling loop from 0-based index i on, cumulative holding the sum of
\* probs[0..i-1]: the first index that passes the test, and the last index
\* when the loop ends without returning
RECURSIVE GPT2_sampleLoop(_, _, _, _)
GPT2_sampleLoop(probs, random, i, cumulative) ==
  IF i >= Len(probs) THEN Len(probs) - 1
  ELSE LET c == NumAdd(cumulative, probs[i + 1])
       IN  IF GPT2_sampleTest(random, c) THEN i
           ELSE GPT2_sampleLoop(probs, random, i + 1, c)

GPT2_sample(probs, random) == GPT2_sampleLoop(probs, random, 0, 0)

\* generateNextToken after the forward pass (lines 259-292): every
\* intermediate value of the step, and the returned token
GPT2_sampleStep(lastLogits, vocabSize, temperature, topK, random) ==
  LET scaledLogits == GPT2_scaledLogits(lastLogits, temperature)
      candidateLogits == GPT2_candidateLogits(scaledLogits, vocabSize, topK)
      probs == batchSoftmax(<<candidateLogits>>)[1]
  IN  [lastLogits |-> lastLogits,
       scaledLogits |-> scaledLogits,
       candidateLogits |-> candidateLogits,
       probs |-> probs,
       token |-> GPT2_sample(probs, random)]

\* GPT2.generateNextToken(tokenIds, temperature, topK) with the value that
\* Math.random() returns in it
GPT2_generateNextToken(gpt, tokenIds, temperature, topK, random) ==
  Bind(GPT2_forward(gpt, tokenIds, TRUE), LAMBDA out :
    Ok(GPT2_sampleStep(out.logits[Len(out.logits)], gpt.vocabSize,
                       temperature, topK, random)))

\* faulty variant: the context without the sliding window
GPT2_inputTokens_unwindowed(gpt, tokens) == tokens

\* the context of one generation step: the last maxSeqLen tokens when the
\* sequence is longer than maxSeqLen
GPT2_inputTokens(gpt, tokens) ==
  IF Len(tokens) > gpt.maxSeqLen
  THEN Slice(tokens, -gpt.maxSeqLen, Len(tokens))
  ELSE tokens

\* faulty variant: the loop of generate with the stop condition the source keeps in
\* a comment, the end token being 0
RECURSIVE GPT2_generateLoop_endToken(_, _, _, _, _, _, _, _)
GPT2_generateLoop_endToken(gpt, tokens, contexts, i, maxLength, temperature, topK, randoms) ==
  IF i >= maxLength \/ (Len(contexts) > 0 /\ tokens[Len(tokens)] = 0)
  THEN [status |-> "ok", value |-> tokens, contexts |-> contexts]
  ELSE LET inputTokens == GPT2_inputTokens(gpt, tokens)
           next == GPT2_generateNextToken(gpt, inputTokens, temperature, topK,
                                          randoms[i + 1])
       IN  IF next.status # "ok"
           THEN [status |-> next.status, contexts |-> Append(contexts, inputTokens)]
           ELSE GPT2_generateLoop_endToken(gpt, Append(tokens, next.value.token),
                                           Append(contexts, inputTokens), i + 1, maxLength,
                                           temperature, topK, randoms)

\* the loop of generate from step i on; randoms[i] is the value Math.random()
\* returns in step i, contexts lists the inputTokens of every step taken
RECURSIVE GPT2_generateLoop(_, _, _, _, _, _, _, _)
GPT2_generateLoop(gpt, tokens, contexts, i, maxLength, temperature, topK, randoms) ==
  IF i >= maxLength
  THEN [status |-> "ok", value |-> tokens, contexts |-> contexts]
  ELSE LET inputTokens == GPT2_inputTokens(gpt, tokens)
           next == GPT2_generateNextToken(gpt, inputTokens, temperature, topK,
                                          randoms[i + 1])
       IN  IF next.status # "ok"
           THEN [status |-> next.status, contexts |-> Append(contexts, inputTokens)]
           ELSE GPT2_generateLoop(gpt, Append(tokens, next.value.token),
                                  Append(contexts, inputTokens), i + 1, maxLength,
                                  temperature, topK, randoms)

\* the array of the caller that was handed to a call
CallerArray == [kind |-> "caller"]

\* faulty variant: generate that pushes into initialTokens itself
\* (let tokens = initialTokens)
GPT2_generate_tokens_noCopy(initialTokens) == CallerArray

\* let tokens = [...initialTokens]: the array that the loop of generate
\* pushes into and that generate returns
GPT2_generate_tokens(initialTokens) == NewArray

\* GPT2.generate(initialTokens, maxLength, temperature, topK)
GPT2_generate(gpt, initialTokens, maxLength, temperature, topK, randoms) ==
  GPT2_generateLoop(gpt, initialTokens, <<>>, 0, maxLength, temperature, topK, randoms)

-----------------------------------------------------------------------------
(* Weight loading: GPT2.setWeights and the setters it delegates to.

   A property of a weights object is absent (None) or present (Some(v)).  A
   tensor handed over by the caller is Given(id, value): value is what the
   array holds, id says which of the caller's arrays it is, so that one
   array handed over twice is told from two arrays with equal contents.
   Every setter is a list of assignments "this.<tensor> = <given array>" in
   the order the code makes them; an assignment stores the caller's array
   itself, not a copy of it. *)

None == <<>>

Some(v) == <<v>>

Given(id, value) == [id |-> id, value |-> value]

\* the place of a tensor in the model: a tensor of a part of the model
\* itself (block 0), or of a part of transformer block number block
Place(block, part, tensor) == [block |-> block, part |-> part, tensor |-> tensor]

\* this.<tensor> = <given array>
Assignment(place, given) == [place |-> place, given |-> given]

\* TokenEmbedding.setEmbedding(embedding)
TokenEmbedding_setEmbedding(embedding) ==
  <<Assignment(Place(0, "tokenEmbedding", "embedding"), embedding)>>

\* LearnedPositionalEncoding.setPositionEmbedding(positionEmbedding)
LearnedPositionalEncoding_setPositionEmbedding(positionEmbedding) ==
  <<Assignment(Place(0, "positionalEncoding", "positionEmbedding"), positionEmbedding)>>

\* LayerNorm.setParams(gamma, beta) on the layer norm at (block, part)
LayerNorm_setParams(block, part, gamma, beta) ==
  <<Assignment(Place(block, part, "gamma"), gamma),
    Assignment(Place(block, part, "beta"), beta)>>

\* MultiHeadAttention.setWeights(weights): the body is empty
MultiHeadAttention_setWeights(block, weights) == <<>>

\* FeedForward.setWeights(weights): each of W1, b1, W2, b2 that is present
FeedForward_setWeights(block, weights) ==
  (IF weights.W1 # None
   THEN <<Assignment(Place(block, "feedForward", "W1"), weights.W1[1])>> ELSE <<>>)
  \o (IF weights.b1 # None
      THEN <<Assignment(Place(block, "feedForward", "b1"), weights.b1[1])>> ELSE <<>>)
  \o (IF weights.W2 # None
      THEN <<Assignment(Place(block, "feedForward", "W2"), weights.W2[1])>> ELSE <<>>)
  \o (IF weights.b2 # None
      THEN <<Assignment(Place(block, "feedForward", "b2"), weights.b2[1])>> ELSE <<>>)

\* TransformerBlock.setWeights(weights) on block number block
TransformerBlock_setWeights(block, weights) ==
  (IF weights.attention # None
   THEN MultiHeadAttention_setWeights(block, weights.attention[1]) ELSE <<>>)
  \o (IF weights.feedForward # None
      THEN FeedForward_setWeights(block, weights.feedForward[1]) ELSE <<>>)
  \o (IF weights.ln1 # None
      THEN LayerNorm_setParams(block, "ln1", weights.ln1[1].gamma, weights.ln1[1].beta)
      ELSE <<>>)
  \o (IF weights.ln2 # None
      THEN LayerNorm_setParams(block, "ln2", weights.ln2[1].gamma, weights.ln2[1].beta)
      ELSE <<>>)

\* weights.transformerBlocks.forEach(...) over the first n entries
RECURSIVE GPT2_setBlockWeights(_, _)
GPT2_setBlockWeights(blocks, n) ==
  IF n = 0 THEN <<>>
  ELSE GPT2_setBlockWeights(blocks, n - 1) \o TransformerBlock_setWeights(n, blocks[n])

\* GPT2.setWeights(weights): the assignments it makes, and how it ends.
\* this.transformerBlocks[i] is undefined for an entry beyond the last
\* block, so the forEach throws a TypeError there, after the assignments
\* before it and without the ones after it.
GPT2_setWeights(gpt, weights) ==
  LET blocks == IF weights.transformerBlocks # None
                THEN weights.transformerBlocks[1] ELSE <<>>
      thrown == Len(blocks) > Len(gpt.transformerBlocks)
      reached == IF thrown THEN Len(gpt.transformerBlocks) ELSE Len(blocks)
  IN  [status |-> IF thrown THEN "TypeError" ELSE "ok",
       assignments |->
         (IF weights.tokenEmbedding # None
          THEN TokenEmbedding_setEmbedding(weights.tokenEmbedding[1]) ELSE <<>>)
         \o (IF weights.positionalEncoding # None
             THEN LearnedPositionalEncoding_setPositionEmbedding(
                    weights.positionalEncoding[1])
             ELSE <<>>)
         \o GPT2_setBlockWeights(blocks, reached)
         \o (IF thrown THEN <<>>
             ELSE (IF weights.finalLayerNorm # None
                   THEN LayerNorm_setParams(0, "finalLayerNorm",
                                            weights.finalLayerNorm[1].gamma,
                                            weights.finalLayerNorm[1].beta)
                   ELSE <<>>)
                  \o (IF weights.lmHead # None
                      THEN <<Assignment(Place(0, "lmHead", "lmHead"), weights.lmHead[1])>>
                      ELSE <<>>)
                  \o (IF weights.lmBias # None
                      THEN <<Assignment(Place(0, "lmBias", "lmBias"), weights.lmBias[1])>>
                      ELSE <<>>))]

\* every tensor that a weights object supplies, with the place it is meant for
SuppliedFeedForward(block, weights) ==
  {Assignment(Place(block, "feedForward", t), weights[t][1]) :
     t \in {t \in {"W1", "b1", "W2", "b2"} : weights[t] # None}}

SuppliedNorm(block, part, weights) ==
  {Assignment(Place(block, part, "gamma"), weights.gamma),
   Assignment(Place(block, part, "beta"), weights.beta)}

SuppliedBlock(block, weights) ==
  (IF weights.attention # None
   THEN {Assignment(Place(block, "attention", "W_o"), weights.attention[1].W_o)} ELSE {})
  \cup (IF weights.feedForward # None
        THEN SuppliedFeedForward(block, weights.feedForward[1]) ELSE {})
  \cup (IF weights.ln1 # None THEN SuppliedNorm(block, "ln1", weights.ln1[1]) ELSE {})
  \cup (IF weights.ln2 # None THEN SuppliedNorm(block, "ln2", weights.ln2[1]) ELSE {})

Supplied(weights) ==
  (IF weights.tokenEmbedding # None
   THEN {Assignment(Place(0, "tokenEmbedding", "embedding"), weights.tokenEmbedding[1])}
   ELSE {})
  \cup (IF weights.positionalEncoding # None
        THEN {Assignment(Place(0, "positionalEncoding", "positionEmbedding"),
                         weights.positionalEncoding[1])}
        ELSE {})
  \cup (IF weights.transformerBlocks # None
        THEN UNION {SuppliedBlock(i, weights.transformerBlocks[1][i]) :
                      i \in 1..Len(weights.transformerBlocks[1])}
        ELSE {})
  \cup (IF weights.finalLayerNorm # None
        THEN SuppliedNorm(0, "finalLayerNorm", weights.finalLayerNorm[1]) ELSE {})
  \cup (IF weights.lmHead # None
        THEN {Assignment(Place(0, "lmHead", "lmHead"), weights.lmHead[1])} ELSE {})
  \cup (IF weights.lmBias # None
        THEN {Assignment(Place(0, "lmBias", "lmBias"), weights.lmBias[1])} ELSE {})

\* the model with the tensor at a place replaced
Assigned(gpt, place, value) ==
  IF place.block # 0
  THEN [gpt EXCEPT !.transformerBlocks[place.block][place.part][place.tensor] = value]
  ELSE IF place.part \in {"lmHead", "lmBias"}
  THEN [gpt EXCEPT ![place.part] = value]
  ELSE [gpt EXCEPT ![place.part][place.tensor] = value]

\* the model after the first n of a list of assignments
RECURSIVE AssignedAll(_, _, _)
AssignedAll(gpt, assignments, n) ==
  IF n = 0 THEN gpt
  ELSE Assigned(AssignedAll(gpt, assignments, n - 1),
                assignments[n].place, assignments[n].given.value)

\* the tensor of the model at a place
TensorAt(gpt, place) ==
  IF place.block # 0
  THEN gpt.transformerBlocks[place.block][place.part][place.tensor]
  ELSE IF place.part \in {"lmHead", "lmBias"}
  THEN gpt[place.part]
  ELSE gpt[place.part][place.tensor]

\* array[0] += 1 on a vector, array[0][0] += 1 on a matrix
Written(value) ==
  IF IsArray(value[1]) THEN [value EXCEPT ![1][1] = @ + 1]
  ELSE [value EXCEPT ![1] = @ + 1]

-----------------------------------------------------------------------------
(* The inputs of the calls *)

\* the configurations handed to the constructor
Configs ==
  [vocabSize : {ModelVocab}, dModel : {ModelDim}, numLayers : 0..MaxLayers,
   numHeads : 0..MaxHeads, dFF : {0, ModelDim}, maxSeqLen : {ModelSeqLen},
   dropout : {0}]

\* token IDs: every ID of the vocabulary, and one on either side of it
TokenIds == -1..ModelVocab

SeqsUpTo(S, n) == UNION {[1..k -> S] : k \in 0..n}

Temperatures == {1, 2}

TopKs == {TopKNull} \cup {TopKOf(k) : k \in 0..(ModelVocab + 1)}

\* the values of Math.random(), in units of 1/PScale
Randoms == 0..(PScale - 1)

\* the inputs of generateNextToken and generate in the whole-model
\* specification: token IDs at both ends of the vocabulary and one below it,
\* and draws at both ends of [0, 1)
GenTokenIds == {-1, 0, ModelVocab - 1}

GenRandoms == {0, PScale - 1}

GenTopKs == {TopKNull, TopKOf(0), TopKOf(1)}

\* the k token IDs that walk up the vocabulary from first, wrapping around
Ramp(k, first) == [i \in 1..k |-> (first + i - 1) % ModelVocab]

\* the initial tokens handed to generate: the empty sequence, sequences of
\* every length up to MaxInit whose tokens differ from one position to the
\* next, and the same with an ID below the vocabulary in the last place
GenInitials ==
  {<<>>}
  \cup {Ramp(k, first) : k \in 1..MaxInit, first \in {0, ModelVocab - 1}}
  \cup {[Ramp(k, 0) EXCEPT ![k] = -1] : k \in 1..MaxInit}

\* the draws of the steps of one generate call: a draw for the odd steps and
\* a draw for the even steps
GenRandomSeqs(maxLength) ==
  {[i \in 1..maxLength |-> IF i % 2 = 1 THEN odd ELSE even] :
     odd \in GenRandoms, even \in GenRandoms}

-----------------------------------------------------------------------------
(* The state machine: one GPT2 object, the outcome of the call that has
   just returned or thrown, and what the caller has kept from earlier calls.
   Execution is synchronous: a call is made when the caller holds no
   outcome, and the caller drops the outcome before the next call. *)

NoModel == [constructed |-> FALSE]

NoResult == [op |-> "none"]

\* the caller has kept no outcome and has loaded no weights
NoCaller == [kept |-> NoResult, loads |-> 0]

Init ==
  /\ model = NoModel
  /\ result = NoResult
  /\ caller = NoCaller

\* the caller is done with the outcome of the last call; a caller that has
\* kept the logits of a forward call remembers which calls it made since
Discard ==
  /\ result # NoResult
  /\ result' = NoResult
  /\ caller' = IF caller.kept = NoResult THEN caller
               ELSE [caller EXCEPT !.kept.between = @ \cup {result.op}]
  /\ UNCHANGED model

\* the caller keeps the logits of the forward call that has just returned,
\* next to the weights they were computed with
Keep ==
  /\ result.op = "forward"
  /\ result.out.status = "ok"
  /\ caller.kept = NoResult
  /\ caller' = [caller EXCEPT !.kept = [op |-> "forward",
                                        tokenIds |-> result.tokenIds,
                                        logits |-> result.out.value.logits,
                                        weights |-> model,
                                        between |-> {}]]
  /\ result' = NoResult
  /\ UNCHANGED model

\* new GPT2(config)
Construct(config) ==
  /\ result = NoResult
  /\ ~model.constructed
  /\ LET r == GPT2_constructor(config)
     IN  /\ model' = IF r.status = "ok" THEN r.value ELSE NoModel
         /\ result' = [op |-> "constructor", config |-> config,
                       status |-> r.status, built |-> r.built]
  /\ UNCHANGED caller

\* model.tokenEmbedding.forward(tokenIds)
EmbedTokens(tokenIds) ==
  /\ result = NoResult
  /\ model.constructed
  /\ result' = [op |-> "TokenEmbedding.forward", tokenIds |-> tokenIds,
                out |-> TokenEmbedding_forward(model.tokenEmbedding, tokenIds)]
  /\ UNCHANGED <<model, caller>>

\* model.positionalEncoding.forward(seqLen)
EncodePositions(seqLen) ==
  /\ result = NoResult
  /\ model.constructed
  /\ result' = [op |-> "LearnedPositionalEncoding.forward", seqLen |-> seqLen,
                out |-> LearnedPositionalEncoding_forward(model.positionalEncoding,
                                                          seqLen)]
  /\ UNCHANGED <<model, caller>>

\* new SinusoidalPositionalEncoding(maxSeqLen, dModel).forward(seqLen); the
\* caller holds the encoding object next to the outcome
EncodeSinusoidal(maxSeqLen, dModel, seqLen) ==
  /\ result = NoResult
  /\ LET pe == SinusoidalPositionalEncoding_constructor(maxSeqLen, dModel)
     IN  result' = [op |-> "SinusoidalPositionalEncoding.forward", pe |-> pe,
                    seqLen |-> seqLen,
                    out |-> SinusoidalPositionalEncoding_forward(pe, seqLen)]
  /\ UNCHANGED <<model, caller>>

\* the calls that return rows of a stored table
RowCalls ==
  {"TokenEmbedding.forward", "LearnedPositionalEncoding.forward",
   "SinusoidalPositionalEncoding.forward"}

\* what row k of the matrix that the last call returned is
ReturnedRow(k) ==
  IF result.op = "TokenEmbedding.forward"
  THEN TokenEmbedding_returnedRow(model.tokenEmbedding, result.tokenIds[k])
  ELSE IF result.op = "LearnedPositionalEncoding.forward"
  THEN LearnedPositionalEncoding_returnedRow(model.positionalEncoding, k - 1)
  ELSE SinusoidalPositionalEncoding_returnedRow(result.pe, k - 1)

\* the table that the last call returned rows of
StoredTable ==
  IF result.op = "TokenEmbedding.forward" THEN model.tokenEmbedding.embedding
  ELSE IF result.op = "LearnedPositionalEncoding.forward"
  THEN model.positionalEncoding.positionEmbedding
  ELSE result.pe.positionEncoding

\* the caller adds 1 to cell j of row k of the matrix that the last call
\* returned (returned[k][j] += 1).  The write lands in the array that row k
\* is: when that is a stored row, the table changes, and so does every
\* other returned row that is the same stored row.
WriteReturned(k, j) ==
  /\ result.op \in RowCalls
  /\ result.out.status = "ok"
  /\ k \in 1..Len(result.out.value)
  /\ j \in 1..Len(result.out.value[k])
  /\ LET rows == result.out.value
         written == rows[k][j] + 1
         ref == ReturnedRow(k)
         table == IF ref.kind = "stored"
                  THEN [StoredTable EXCEPT ![ref.row][j] = written]
                  ELSE StoredTable
     IN  /\ result' = [op |-> "rowWritten", of |-> result, row |-> k, col |-> j,
                       before |-> StoredTable,
                       rows |-> [r \in 1..Len(rows) |->
                                   IF r = k \/ (ref.kind = "stored" /\ ReturnedRow(r) = ref)
                                   THEN [rows[r] EXCEPT ![j] = written]
                                   ELSE rows[r]],
                       pe |-> IF result.op = "SinusoidalPositionalEncoding.forward"
                              THEN [result.pe EXCEPT !.positionEncoding = table]
                              ELSE NoModel]
         /\ model' = IF result.op = "TokenEmbedding.forward"
                     THEN [model EXCEPT !.tokenEmbedding.embedding = table]
                     ELSE IF result.op = "LearnedPositionalEncoding.forward"
                     THEN [model EXCEPT !.positionalEncoding.positionEmbedding = table]
                     ELSE model
  /\ UNCHANGED caller

\* faulty variant: a forward call that applies the dropout of the
\* configuration to the logits when Math.random() says so
Forward_withDropout(tokenIds, returnLogits) ==
  /\ result = NoResult
  /\ model.constructed
  /\ \E drop \in BOOLEAN :
       LET out == GPT2_forward(model, tokenIds, returnLogits)
       IN  result' = [op |-> "forward", tokenIds |-> tokenIds,
                      returnLogits |-> returnLogits,
                      out |-> IF drop /\ out.status = "ok"
                              THEN Ok([out.value EXCEPT !.logits =
                                         [i \in 1..Len(@) |-> Fill(Len(@[i]), 0)]])
                              ELSE out]
  /\ UNCHANGED <<model, caller>>

\* faulty variant: a forward call that adds the position embeddings into the
\* stored rows of the token embedding table instead of into copies
Forward_inPlace(tokenIds, returnLogits) ==
  /\ result = NoResult
  /\ model.constructed
  /\ LET out == GPT2_forward(model, tokenIds, returnLogits)
         positions == model.positionalEncoding.positionEmbedding
     IN  /\ result' = [op |-> "forward", tokenIds |-> tokenIds,
                       returnLogits |-> returnLogits, out |-> out]
         /\ model' = IF out.status # "ok" \/ Len(tokenIds) = 0 THEN model
                     ELSE [model EXCEPT !.tokenEmbedding.embedding[tokenIds[1] + 1] =
                             [j \in 1..Len(@) |-> NumAdd(@[j], positions[1][j])]]
  /\ UNCHANGED caller

\* model.forward(tokenIds, returnLogits)
Forward(tokenIds, returnLogits) ==
  /\ result = NoResult
  /\ model.constructed
  /\ result' = [op |-> "forward", tokenIds |-> tokenIds, returnLogits |-> returnLogits,
                out |-> GPT2_forward(model, tokenIds, returnLogits)]
  /\ UNCHANGED <<model, caller>>

\* model.getParameterCount()
GetParameterCount ==
  /\ result = NoResult
  /\ model.constructed
  /\ result' = [op |-> "getParameterCount", count |-> GPT2_getParameterCount(model)]
  /\ UNCHANGED <<model, caller>>

\* model.generateNextToken(tokenIds, temperature, topK)
GenerateNextToken(tokenIds, temperature, topK, random) ==
  /\ result = NoResult
  /\ model.constructed
  /\ result' = [op |-> "generateNextToken", tokenIds |-> tokenIds,
                temperature |-> temperature, topK |-> topK, random |-> random,
                out |-> GPT2_generateNextToken(model, tokenIds, temperature, topK, random)]
  /\ UNCHANGED <<model, caller>>

\* model.generate(initialTokens, maxLength, temperature, topK)
Generate(initialTokens, maxLength, temperature, topK, randoms) ==
  /\ result = NoResult
  /\ model.constructed
  /\ LET out == GPT2_generate(model, initialTokens, maxLength, temperature, topK,
                              randoms)
         tokens == GPT2_generate_tokens(initialTokens)
         \* what the array tokens holds when generate returns or throws: a
         \* call that throws in step i has pushed i tokens
         pushed == IF out.status = "ok" THEN out.value
                   ELSE GPT2_generate(model, initialTokens, Len(out.contexts) - 1,
                                      temperature, topK, randoms).value
     IN  result' = [op |-> "generate", initialTokens |-> initialTokens,
                    maxLength |-> maxLength, temperature |-> temperature,
                    topK |-> topK, out |-> out, returned |-> tokens,
                    initialTokensAfter |-> IF tokens = CallerArray THEN pushed
                                           ELSE initialTokens]
  /\ UNCHANGED <<model, caller>>

\* the inputs of a direct call of an attention layer: the embeddings of a
\* non-empty sequence of IDs of the vocabulary that fits the model
AttendInputs == SeqsUpTo(0..(ModelVocab - 1), ModelSeqLen) \ {<<>>}

\* model.transformerBlocks[layer - 1].attention.forward(x, true), x being
\* the embeddings of tokenIds; the outcome shows the head outputs and their
\* concatenation along with the returned matrix
Attend(layer, tokenIds) ==
  /\ result = NoResult
  /\ model.constructed
  /\ layer \in 1..model.numLayers
  /\ LET mha == model.transformerBlocks[layer].attention
         x == TokenEmbedding_forward(model.tokenEmbedding, tokenIds).value
         headOutputs == [h \in 1..Len(mha.heads) |->
                           AttentionHead_forward(mha.heads[h], x, TRUE).value]
     IN  result' = [op |-> "MultiHeadAttention.forward", layer |-> layer, x |-> x,
                    headOutputs |-> headOutputs,
                    concatenated |-> concatenateHeads(mha, headOutputs, Len(x)),
                    out |-> MultiHeadAttention_forward(mha, x, TRUE)]
  /\ UNCHANGED <<model, caller>>

\* a call is made by a caller that holds no outcome
Idle == result = NoResult

Next ==
  \/ Discard
  \/ (Idle /\ \E config \in Configs : Construct(config))
  \/ (Idle /\ \E tokenIds \in SeqsUpTo(TokenIds, MaxTokens) : EmbedTokens(tokenIds))
  \/ (Idle /\ \E tokenIds \in SeqsUpTo(TokenIds, MaxTokens), returnLogits \in BOOLEAN :
              Forward(tokenIds, returnLogits))
  \/ (Idle /\ \E tokenIds \in SeqsUpTo(GenTokenIds, MaxTokens),
                 temperature \in Temperatures, topK \in TopKs, random \in GenRandoms :
              GenerateNextToken(tokenIds, temperature, topK, random))
  \/ (Idle /\ \E initialTokens \in GenInitials, maxLength \in 0..MaxGen,
                 topK \in GenTopKs :
              \E randoms \in GenRandomSeqs(maxLength) :
                Generate(initialTokens, maxLength, 1, topK, randoms))
  \/ (Idle /\ \E layer \in 1..MaxLayers, tokenIds \in AttendInputs :
              Attend(layer, tokenIds))
  \/ (Idle /\ GetParameterCount)

Spec == Init /\ [][Next]_vars

-----------------------------------------------------------------------------
(* Repeated forward calls: the caller keeps the logits of one forward call,
   makes other calls on the same model, and calls forward again. *)

\* the token sequences of the repeated calls
ReplayInputs == {Ramp(k, first) : k \in 1..ModelSeqLen, first \in {0, ModelVocab - 1}}

\* the models of the repeated calls: one head and one head per feature,
\* with every number of layers
ReplayConfigs ==
  {config \in Configs : config.numHeads \in {1, ModelDim} /\ config.dFF = ModelDim}

NextReplay ==
  \/ Discard
  \/ Keep
  \/ (Idle /\ \E config \in ReplayConfigs : Construct(config))
  \/ (Idle /\ \E tokenIds \in ReplayInputs, returnLogits \in BOOLEAN :
              Forward(tokenIds, returnLogits))
  \/ (Idle /\ \E tokenIds \in ReplayInputs, random \in GenRandoms :
              GenerateNextToken(tokenIds, 1, TopKNull, random))
  \/ (Idle /\ \E initialTokens \in ReplayInputs, random \in GenRandoms :
              Generate(initialTokens, MaxGen, 1, TopKNull,
                       [i \in 1..MaxGen |-> random]))

SpecReplay == Init /\ [][NextReplay]_vars

-----------------------------------------------------------------------------
(* Forward calls on every sequence of tokens of the vocabulary, up to one
   token more than the model takes: sequences that share a prefix. *)

CausalInputs == SeqsUpTo(0..(ModelVocab - 1), ModelSeqLen + 1)

NextCausal ==
  \/ Discard
  \/ (Idle /\ \E config \in Configs : Construct(config))
  \/ (Idle /\ \E tokenIds \in CausalInputs, returnLogits \in BOOLEAN :
              Forward(tokenIds, returnLogits))

SpecCausal == Init /\ [][NextCausal]_vars

-----------------------------------------------------------------------------
(* matrixMultiply on its own: the operands are matrices of every shape up to
   MaxMatDim x MaxMatDim, whether or not their inner dimensions agree. *)

Matrices ==
  {initializeWeights(rows, cols, salt) :
     rows \in 1..MaxMatDim, cols \in 1..MaxMatDim, salt \in 0..MaxMatSalt}

\* matrixMultiply(a, b)
MatrixMultiply(a, b) ==
  /\ result = NoResult
  /\ result' = [op |-> "matrixMultiply", a |-> a, b |-> b, out |-> matrixMultiply(a, b)]
  /\ UNCHANGED <<model, caller>>

NextMatrix ==
  \/ Discard
  \/ (Idle /\ \E a \in Matrices, b \in Matrices : MatrixMultiply(a, b))

SpecMatrix == Init /\ [][NextMatrix]_vars

-----------------------------------------------------------------------------
(* The rows that the embedding and the positional encodings return: the
   caller gets a matrix from one of them and writes into it. *)

\* the token sequences of the embedding calls: IDs of the vocabulary, the
\* same ID twice included
RowInputs == SeqsUpTo(0..(ModelVocab - 1), ModelSeqLen)

NextRows ==
  \/ Discard
  \/ (Idle /\ \E config \in Configs : Construct(config))
  \/ (Idle /\ \E tokenIds \in RowInputs : EmbedTokens(tokenIds))
  \/ (Idle /\ \E seqLen \in 0..(ModelSeqLen + 1) : EncodePositions(seqLen))
  \/ (Idle /\ \E seqLen \in 0..(ModelSeqLen + 1) :
              EncodeSinusoidal(ModelSeqLen, ModelDim, seqLen))
  \/ (\E k \in 1..ModelSeqLen, j \in 1..ModelDim : WriteReturned(k, j))

SpecRows == Init /\ [][NextRows]_vars

-----------------------------------------------------------------------------
(* Weight loading: the caller builds a weights object from arrays of its
   own, hands it to setWeights, and keeps the arrays; inference calls run on
   the model before and after. *)

NoWeights ==
  [tokenEmbedding |-> None, positionalEncoding |-> None, transformerBlocks |-> None,
   finalLayerNorm |-> None, lmHead |-> None, lmBias |-> None]

NoBlockWeights == [attention |-> None, feedForward |-> None, ln1 |-> None, ln2 |-> None]

NoFeedForwardWeights == [W1 |-> None, b1 |-> None, W2 |-> None, b2 |-> None]

\* the caller's arrays: a table of the shape of the embedding table and one
\* with a row more, a bias of the length of the vocabulary and one with an
\* entry more, a gamma, a beta, and tensors for the other places
GivenEmbedding == Given(1, initializeWeights(ModelVocab, ModelDim, 21))

GivenTallEmbedding == Given(1, initializeWeights(ModelVocab + 1, ModelDim, 21))

GivenBias == Given(2, Fill(ModelVocab, 1))

GivenLongBias == Given(2, Fill(ModelVocab + 1, 1))

GivenGamma == Given(3, Fill(ModelDim, 2))

GivenBeta == Given(4, Fill(ModelDim, 1))

GivenW_o == Given(5, initializeWeights(ModelDim, ModelDim, 22))

GivenB2 == Given(6, Fill(ModelDim, 1))

GivenPositions == Given(7, initializeWeights(ModelSeqLen, ModelDim, 23))

GivenHead == Given(8, initializeWeights(ModelDim, ModelVocab, 24))

\* a block entry with attention weights and the same gamma and beta arrays
\* for both layer norms
NormBlockWeights ==
  [NoBlockWeights EXCEPT !.attention = Some([W_o |-> GivenW_o]),
                         !.ln1 = Some([gamma |-> GivenGamma, beta |-> GivenBeta]),
                         !.ln2 = Some([gamma |-> GivenGamma, beta |-> GivenBeta])]

\* a block entry with a feed-forward bias
BiasBlockWeights ==
  [NoBlockWeights EXCEPT !.feedForward = Some([NoFeedForwardWeights EXCEPT
                                                 !.b2 = Some(GivenB2)])]

\* the weights objects handed to setWeights
WeightObjects ==
  {[NoWeights EXCEPT !.tokenEmbedding = Some(GivenTallEmbedding)],
   [NoWeights EXCEPT !.lmBias = Some(GivenLongBias)],
   [NoWeights EXCEPT !.positionalEncoding = Some(GivenPositions),
                     !.finalLayerNorm = Some([gamma |-> GivenGamma, beta |-> GivenBeta]),
                     !.lmHead = Some(GivenHead)],
   [NoWeights EXCEPT !.tokenEmbedding = Some(GivenEmbedding),
                     !.transformerBlocks = Some(<<NormBlockWeights>>),
                     !.lmBias = Some(GivenBias)]}
  \cup {[NoWeights EXCEPT !.tokenEmbedding = Some(GivenEmbedding),
                          !.transformerBlocks = Some([i \in 1..n |-> BiasBlockWeights]),
                          !.lmBias = Some(GivenBias)] : n \in 1..(MaxLayers + 1)}

\* the caller's arrays by number
GivenIds == 1..8

\* model.setWeights(weights).  The outcome names the places that now hold
\* one of the caller's arrays.
SetWeights(weights) ==
  /\ result = NoResult
  /\ model.constructed
  /\ caller.loads < MaxLoads
  /\ LET r == GPT2_setWeights(model, weights)
     IN  /\ model' = AssignedAll(model, r.assignments, Len(r.assignments))
         /\ result' = [op |-> "setWeights", weights |-> weights, before |-> model,
                       status |-> r.status, supplied |-> Supplied(weights),
                       installed |-> {[place |-> r.assignments[n].place,
                                       id |-> r.assignments[n].given.id] :
                                        n \in 1..Len(r.assignments)}]
  /\ caller' = [caller EXCEPT !.loads = @ + 1]

\* after setWeights the caller writes into the array number id of the
\* weights object (array[0] += 1): every place of the model that holds that
\* array changes with it
WriteGiven(id) ==
  /\ result.op = "setWeights"
  /\ \E a \in result.supplied : a.given.id = id
  /\ LET places == {i.place : i \in {i \in result.installed : i.id = id}}
         RECURSIVE written(_, _)
         written(gpt, todo) ==
           IF todo = {} THEN gpt
           ELSE LET place == CHOOSE q \in todo : TRUE
                IN  written(Assigned(gpt, place, Written(TensorAt(gpt, place))),
                            todo \ {place})
     IN  /\ model' = written(model, places)
         /\ result' = [op |-> "givenWritten", id |-> id, of |-> result,
                       before |-> model]
  /\ caller' = [caller EXCEPT !.loads = @ + 1]

\* the models that weights are loaded into: one head and one head per
\* feature, with every number of layers
LoadConfigs ==
  {config \in Configs : config.numHeads \in {1, ModelDim} /\ config.dFF = ModelDim}

\* the token sequences of the inference calls made around weight loading
LoadedInputs == {Ramp(k, 0) : k \in 1..ModelSeqLen}

NextWeights ==
  \/ Discard
  \/ (Idle /\ \E config \in LoadConfigs : Construct(config))
  \/ (Idle /\ \E weights \in WeightObjects : SetWeights(weights))
  \/ (\E id \in GivenIds : WriteGiven(id))
  \/ (Idle /\ \E tokenIds \in LoadedInputs : Forward(tokenIds, TRUE))
  \/ (Idle /\ \E random \in GenRandoms :
              GenerateNextToken(Ramp(ModelSeqLen, 0), 1, TopKNull, random))
  \/ (Idle /\ \E random \in GenRandoms :
              Generate(Ramp(ModelSeqLen, 0), MaxGen, 1, TopKNull,
                       [i \in 1..MaxGen |-> random]))
  \/ (Idle /\ GetParameterCount)

SpecWeights == Init /\ [][NextWeights]_vars

-----------------------------------------------------------------------------
(* LayerNorm.forward on its own, on matrices (seqLen x dModel) and on batches
   of matrices (batch x seqLen x dModel). *)

\* the layer norms: as constructed, and with gamma and beta set by setParams
NormLayers ==
  {LayerNorm_constructor(ModelDim),
   [LayerNorm_constructor(ModelDim) EXCEPT !.gamma = [i \in 1..ModelDim |-> i],
                                           !.beta = [i \in 1..ModelDim |-> 2 - i]]}

\* feature vectors: level ones, and ones that rise faster and faster
NormFeatures ==
  {[i \in 1..ModelDim |-> level + slope * i * i] :
     level \in -1..1, slope \in 0..MaxNormSlope}

\* 2D inputs: at least one row
NormMatrices == SeqsUpTo(NormFeatures, MaxNormLen) \ {<<>>}

\* 3D inputs: every matrix as a batch of one, and batches of one-row matrices
NormBatches ==
  {<<x>> : x \in NormMatrices}
  \cup UNION {{[b \in 1..n |-> <<rows[b]>>] : rows \in [1..n -> NormFeatures]} :
                n \in 2..MaxNormBatch}

\* ln.forward(x)
NormForward(ln, x, rank) ==
  /\ result = NoResult
  /\ result' = [op |-> "LayerNorm.forward", ln |-> ln, x |-> x, rank |-> rank,
                out |-> LayerNorm_forward(ln, x)]
  /\ UNCHANGED <<model, caller>>

NextNorm ==
  \/ Discard
  \/ (Idle /\ \E ln \in NormLayers, x \in NormMatrices : NormForward(ln, x, 2))
  \/ (Idle /\ \E ln \in NormLayers, x \in NormBatches : NormForward(ln, x, 3))

SpecNorm == Init /\ [][NextNorm]_vars

-----------------------------------------------------------------------------
(* Sequence lengths up to one more than maxSeqLen, handed to the token
   embedding, to both positional encodings and to forward. *)

\* a token sequence of every length from 0 to maxSeqLen + 1
LengthInputs == {Ramp(k, 0) : k \in 0..(ModelSeqLen + 1)}

NextLengths ==
  \/ Discard
  \/ (Idle /\ \E config \in Configs : Construct(config))
  \/ (Idle /\ \E tokenIds \in LengthInputs : EmbedTokens(tokenIds))
  \/ (Idle /\ \E seqLen \in 0..(ModelSeqLen + 1) : EncodePositions(seqLen))
  \/ (Idle /\ \E seqLen \in 0..(ModelSeqLen + 1) :
              EncodeSinusoidal(ModelSeqLen, ModelDim, seqLen))
  \/ (Idle /\ \E tokenIds \in LengthInputs, returnLogits \in BOOLEAN :
              Forward(tokenIds, returnLogits))

SpecLengths == Init /\ [][NextLengths]_vars

-----------------------------------------------------------------------------
(* The sampling step of generateNextToken on its own: the last row of the
   logits is drawn from a bounded set instead of being computed by a forward
   pass, so that rows with ties and rows in every order are covered. *)

SampleLogits == [1..SampleVocab -> (-MaxLogit)..MaxLogit]

SampleTopKs == {TopKNull} \cup {TopKOf(k) : k \in 0..(SampleVocab + 1)}

\* lines 259-292 of generateNextToken on the row lastLogits
SampleStep(lastLogits, temperature, topK, random) ==
  /\ result = NoResult
  /\ result' = [op |-> "sampleStep", vocabSize |-> SampleVocab,
                temperature |-> temperature, topK |-> topK, random |-> random,
                out |-> GPT2_sampleStep(lastLogits, SampleVocab, temperature, topK,
                                        random)]
  /\ UNCHANGED <<model, caller>>

NextSample ==
  \/ Discard
  \/ (Idle /\ \E lastLogits \in SampleLogits, temperature \in Temperatures,
                 topK \in SampleTopKs, random \in Randoms :
              SampleStep(lastLogits, temperature, topK, random))

SpecSample == Init /\ [][NextSample]_vars

-----------------------------------------------------------------------------
(* Steps 4 and 5 of AttentionHead.forward on their own, with the causal mask
   that every block of GPT2 asks for: the scaled scores are drawn from a
   bounded set instead of being computed from Q and K. *)

MaskScores ==
  UNION {[1..n -> [1..n -> {-MaxScore, MaxScore}]] : n \in 0..MaxMaskLen}

\* generateCausalMask, applyMask and batchSoftmax on the matrix scaledScores
AttentionWeights(scaledScores, useCausalMask) ==
  /\ result = NoResult
  /\ result' = [op |-> "attentionWeights", scaledScores |-> scaledScores,
                useCausalMask |-> useCausalMask,
                mask |-> generateCausalMask(Len(scaledScores)),
                maskedScores |->
                  IF useCausalMask
                  THEN applyMask(scaledScores, generateCausalMask(Len(scaledScores)))
                  ELSE scaledScores,
                weights |-> AttentionHead_weights(scaledScores, useCausalMask)]
  /\ UNCHANGED <<model, caller>>

NextMask ==
  \/ Discard
  \/ (Idle /\ \E scaledScores \in MaskScores : AttentionWeights(scaledScores, TRUE))

SpecMask == Init /\ [][NextMask]_vars

-----------------------------------------------------------------------------
(* Properties of the whole model, checked under Spec *)

\* every ID of tokenIds is an ID of the vocabulary
InRange(tokenIds, vocabSize) ==
  \A k \in 1..Len(tokenIds) : tokenIds[k] >= 0 /\ tokenIds[k] < vocabSize

\* m is a matrix of the given shape
HasShape(m, rows, cols) ==
  /\ Len(m) = rows
  /\ \A i \in 1..rows : Len(m[i]) = cols

\* the last n elements of s
LastN(s, n) == [i \in 1..n |-> s[Len(s) - n + i]]

\* whether h divides d
Divides(h, d) == \E q \in 0..d : q * h = d

\* C1: a forward call on in-range token IDs of any length L <= maxSeqLen,
\* L = 0 included, returns a logits matrix of L rows by vocabSize columns and
\* a hiddenStates matrix of L rows by dModel columns.
C1_ForwardShapeForEveryLength ==
  (/\ result.op = "forward"
   /\ Len(result.tokenIds) <= model.maxSeqLen
   /\ InRange(result.tokenIds, model.vocabSize))
  => /\ result.out.status = "ok"
     /\ HasShape(result.out.value.logits, Len(result.tokenIds), model.vocabSize)
     /\ HasShape(result.out.value.hiddenStates, Len(result.tokenIds), model.dModel)

\* C2: a forward call on more than maxSeqLen token IDs throws the
\* sequence-too-long error and returns nothing, whatever the IDs are, those
\* out of the vocabulary included.
C2_TooLongFailsBeforeEmbedding ==
  (result.op = "forward" /\ Len(result.tokenIds) > model.maxSeqLen)
  => result.out = Throw("SequenceTooLongError")

\* a forward call on too many IDs, one of them out of the vocabulary, has
\* thrown the sequence-too-long error
C2_Witness ==
  /\ result.op = "forward"
  /\ Len(result.tokenIds) > model.maxSeqLen
  /\ ~InRange(result.tokenIds, model.vocabSize)
  /\ result.out.status = "SequenceTooLongError"

\* C3: the constructor throws the configuration error, having built no
\* component and leaving no model, exactly when numHeads does not divide
\* dModel; every other configuration yields a model.
C3_ConstructorDivisibility ==
  result.op = "constructor"
  => IF Divides(result.config.numHeads, result.config.dModel)
     THEN result.status = "ok" /\ model.constructed
     ELSE /\ result.status = "ConfigurationError"
          /\ result.built = <<>>
          /\ ~model.constructed

\* the constructor has rejected a configuration with layers to build and a
\* positive numHeads that does not divide dModel
C3_Witness ==
  /\ result.op = "constructor"
  /\ result.config.numHeads > 0
  /\ result.config.numLayers > 0
  /\ ~Divides(result.config.numHeads, result.config.dModel)
  /\ result.status = "ConfigurationError"
  /\ result.built = <<>>

\* C4: generate on a non-empty sequence of in-range IDs takes exactly
\* maxLength steps and returns the initial tokens followed by maxLength
\* tokens of the vocabulary.
C4_GenerateLength ==
  (/\ result.op = "generate"
   /\ Len(result.initialTokens) > 0
   /\ InRange(result.initialTokens, model.vocabSize))
  => /\ result.out.status = "ok"
     /\ Len(result.out.contexts) = result.maxLength
     /\ Len(result.out.value) = Len(result.initialTokens) + result.maxLength
     /\ SubSeq(result.out.value, 1, Len(result.initialTokens)) = result.initialTokens
     /\ \A k \in (Len(result.initialTokens) + 1)..Len(result.out.value) :
          result.out.value[k] \in 0..(model.vocabSize - 1)

\* generate has returned after MaxGen steps, the first of which appended
\* token 0
C4_Witness ==
  /\ result.op = "generate"
  /\ Len(result.initialTokens) > 0
  /\ result.maxLength = MaxGen
  /\ result.out.status = "ok"
  /\ Len(result.out.value) = Len(result.initialTokens) + MaxGen
  /\ result.out.value[Len(result.initialTokens) + 1] = 0

\* the sequence generate holds when it takes step k: the initial tokens and
\* the k - 1 tokens appended so far
C5_Accumulated(k) ==
  IF k = 1 THEN result.initialTokens
  ELSE SubSeq(result.out.value, 1, Len(result.initialTokens) + k - 1)

C11_HeadsTileTheModelWidth ==
  /\ model.constructed
     => \A l \in 1..model.numLayers :
          LET mha == model.transformerBlocks[l].attention
          IN  /\ mha.dK = mha.dV
              /\ mha.dK * model.numHeads = model.dModel
              /\ Len(mha.heads) = model.numHeads
              /\ \A h \in 1..Len(mha.heads) :
                   /\ mha.heads[h].dK = mha.dK
                   /\ mha.heads[h].dV = mha.dV
                   /\ HasShape(mha.heads[h].W_q, model.dModel, mha.dK)
                   /\ HasShape(mha.heads[h].W_k, model.dModel, mha.dK)
                   /\ HasShape(mha.heads[h].W_v, model.dModel, mha.dV)
              /\ HasShape(mha.W_o, model.dModel, model.dModel)
  /\ result.op = "MultiHeadAttention.forward"
     => LET dV == model.transformerBlocks[result.layer].attention.dV
        IN  /\ HasShape(result.concatenated, Len(result.x), model.dModel)
            /\ \A h \in 1..model.numHeads :
                 /\ HasShape(result.headOutputs[h], Len(result.x), dV)
                 /\ \A s \in 1..Len(result.x) : \A c \in 1..dV :
                      result.concatenated[s][(h - 1) * dV + c] = result.headOutputs[h][s][c]
            /\ result.out.status = "ok"
            /\ HasShape(result.out.value, Len(result.x), model.dModel)

\* an attention layer of several heads has run on several positions, and
\* its first and last heads returned different features for one of them
C11_Witness ==
  /\ result.op = "MultiHeadAttention.forward"
  /\ model.numHeads >= 2
  /\ Len(result.x) >= 2
  /\ \E s \in 1..Len(result.x) :
       result.headOutputs[1][s] # result.headOutputs[model.numHeads][s]
  /\ Len(result.concatenated[1]) = model.dModel

C23_InitialTokensUntouched ==
  result.op = "generate"
  => /\ result.initialTokensAfter = result.initialTokens
     /\ result.out.status = "ok" => result.returned = NewArray

\* generate has appended tokens to a copy of a non-empty initialTokens
C23_Witness ==
  /\ result.op = "generate"
  /\ result.out.status = "ok"
  /\ Len(result.initialTokens) >= 1
  /\ Len(result.out.value) > Len(result.initialTokens)
  /\ result.initialTokensAfter = result.initialTokens
  /\ result.returned = NewArray

\* the number of cells of a vector and of a matrix
VectorSize(v) == Len(v)

MatrixSize(m) == SumSeq([i \in 1..Len(m) |-> Len(m[i])])

LayerNormSize(ln) == VectorSize(ln.gamma) + VectorSize(ln.beta)

AttentionSize(attention) ==
  SumSeq([h \in 1..Len(attention.heads) |->
            MatrixSize(attention.heads[h].W_q) + MatrixSize(attention.heads[h].W_k)
            + MatrixSize(attention.heads[h].W_v)])
  + MatrixSize(attention.W_o)

FeedForwardSize(ff) ==
  MatrixSize(ff.W1) + VectorSize(ff.b1) + MatrixSize(ff.W2) + VectorSize(ff.b2)

BlockSize(block) ==
  AttentionSize(block.attention) + FeedForwardSize(block.feedForward)
  + LayerNormSize(block.ln1) + LayerNormSize(block.ln2)

\* the total of the sizes of all tensors that the model holds
ModelSize(gpt) ==
  MatrixSize(gpt.tokenEmbedding.embedding)
  + MatrixSize(gpt.positionalEncoding.positionEmbedding)
  + SumSeq([i \in 1..Len(gpt.transformerBlocks) |-> BlockSize(gpt.transformerBlocks[i])])
  + LayerNormSize(gpt.finalLayerNorm)
  + MatrixSize(gpt.lmHead) + VectorSize(gpt.lmBias)

\* C15: getParameterCount returns the total of the sizes of the embedding
\* table, the positional table, every block's attention weights,
\* feed-forward parameters and both layer norms' gamma and beta, the final
\* layer norm's gamma and beta, and the output projection with its bias.
C15_CountIsTotalOfTensorSizes ==
  result.op = "getParameterCount" => result.count = ModelSize(model)

\* C14: after the caller has added to a cell of a matrix returned by the
\* token embedding, the learned positional encoding or the sinusoidal one,
\* the stored table is what it was before the write, and the same call made
\* again returns the values it returned the first time.
C14_ReturnedRowsAreCopies ==
  result.op = "rowWritten"
  => /\ result.rows[result.row][result.col] # result.of.out.value[result.row][result.col]
     /\ result.of.op = "TokenEmbedding.forward"
        => /\ model.tokenEmbedding.embedding = result.before
           /\ TokenEmbedding_forward(model.tokenEmbedding, result.of.tokenIds)
                = result.of.out
     /\ result.of.op = "LearnedPositionalEncoding.forward"
        => /\ model.positionalEncoding.positionEmbedding = result.before
           /\ LearnedPositionalEncoding_forward(model.positionalEncoding,
                                                result.of.seqLen) = result.of.out
     /\ result.of.op = "SinusoidalPositionalEncoding.forward"
        => /\ result.pe.positionEncoding = result.before
           /\ SinusoidalPositionalEncoding_forward(result.pe, result.of.seqLen)
                = result.of.out

\* the caller has written into one of two rows returned for the same token
\* ID: the other row and the stored row still hold the old value
C14_Witness ==
  /\ result.op = "rowWritten"
  /\ result.of.op = "TokenEmbedding.forward"
  /\ Len(result.of.tokenIds) >= 2
  /\ result.of.tokenIds[1] = result.of.tokenIds[2]
  /\ result.row = 1
  /\ result.rows[1] # result.rows[2]
  /\ result.rows[2] = model.tokenEmbedding.embedding[result.of.tokenIds[2] + 1]

\* C9: the embedding lookup throws the token-out-of-range error, and returns
\* no matrix, as soon as one ID is negative or not below vocabSize, wherever
\* it stands in the sequence, and returns one embedding row per ID otherwise;
\* forward and generateNextToken fail alike on the sequences they embed.
C9_OutOfRangeToken ==
  /\ result.op = "TokenEmbedding.forward"
     => IF InRange(result.tokenIds, model.vocabSize)
        THEN /\ result.out.status = "ok"
             /\ Len(result.out.value) = Len(result.tokenIds)
             /\ \A k \in 1..Len(result.tokenIds) :
                  result.out.value[k] = model.tokenEmbedding.embedding[result.tokenIds[k] + 1]
        ELSE result.out = Throw("TokenOutOfRangeError")
  /\ (/\ result.op \in {"forward", "generateNextToken"}
      /\ Len(result.tokenIds) <= model.maxSeqLen
      /\ ~InRange(result.tokenIds, model.vocabSize))
     => result.out = Throw("TokenOutOfRangeError")

\* the lookup has thrown on a sequence whose only bad ID is a negative one
\* that comes last, after IDs of the vocabulary
C9_Witness ==
  /\ result.op = "TokenEmbedding.forward"
  /\ Len(result.tokenIds) >= 2
  /\ InRange(SubSeq(result.tokenIds, 1, Len(result.tokenIds) - 1), model.vocabSize)
  /\ result.tokenIds[Len(result.tokenIds)] < 0
  /\ result.out = Throw("TokenOutOfRangeError")

\* whether fewer than k entries of the row are larger than entry idx
\* (0-based), that is, whether idx is one of the k highest-scoring entries
C6_AmongTopK(row, idx, k) ==
  Cardinality({j \in 1..Len(row) : row[j] > row[idx + 1]}) < k

\* C6: with a topK of K >= 1, whatever the temperature and the draw of
\* Math.random() in [0, 1), 0 included, generateNextToken returns one of the
\* K highest-scoring entries of the last row of the logits (compared after
\* the division by the temperature, which keeps their order).
C6_TokenAmongTopK ==
  (/\ result.op = "generateNextToken"
   /\ result.out.status = "ok"
   /\ ~result.topK.isNull
   /\ result.topK.k >= 1)
  => C6_AmongTopK(result.out.value.scaledLogits, result.out.value.token, result.topK.k)

-----------------------------------------------------------------------------
(* Properties of the sampling step, checked under SpecSample *)

\* C7: with a topK below vocabSize exactly topK candidate logits keep their
\* value, none of them smaller than a dropped one, and every other one is
\* -Infinity, also when entries tie at the cut; with a null topK or one of
\* at least vocabSize the candidates are the scaled logits.
C7_ExactlyTopKKept ==
  result.op = "sampleStep"
  => LET scaled == result.out.scaledLogits
         cand == result.out.candidateLogits
         kept == {i \in 1..Len(scaled) : cand[i] = scaled[i]}
     IN  IF ~result.topK.isNull /\ result.topK.k < result.vocabSize
         THEN /\ Cardinality(kept) = result.topK.k
              /\ \A i \in 1..Len(scaled) : i \notin kept => cand[i] = NegInf
              /\ \A i \in kept : \A j \in 1..Len(scaled) :
                   j \notin kept => scaled[i] >= scaled[j]
         ELSE cand = scaled

\* a step with a topK below vocabSize whose cut falls between two equal
\* entries: one of them is kept and the other is dropped
C7_Witness ==
  /\ result.op = "sampleStep"
  /\ ~result.topK.isNull
  /\ result.topK.k >= 1
  /\ result.topK.k < result.vocabSize
  /\ \E i, j \in 1..Len(result.out.scaledLogits) :
       /\ result.out.scaledLogits[i] = result.out.scaledLogits[j]
       /\ result.out.candidateLogits[i] = result.out.scaledLogits[i]
       /\ result.out.candidateLogits[j] = NegInf

\* the sum of the first i probabilities
RECURSIVE C8_Cumulative(_, _)
C8_Cumulative(probs, i) ==
  IF i = 0 THEN 0 ELSE C8_Cumulative(probs, i - 1) + probs[i]

\* the 1-based indices at which the cumulative sum has reached the draw
C8_Reached(probs, random) ==
  {i \in 1..Len(probs) :
     /\ \A j \in 1..i : IsFinite(probs[j])
     /\ C8_Cumulative(probs, i) >= random}

\* C8: the sampled index is the smallest one at which the cumulative sum of
\* the probabilities is at least the draw, and the last index when the sum
\* never gets there.
C8_SmallestIndexReachingDraw ==
  result.op = "sampleStep"
  => LET reached == C8_Reached(result.out.probs, result.random)
     IN  result.out.token =
           IF reached # {}
           THEN (CHOOSE i \in reached : \A l \in reached : i <= l) - 1
           ELSE Len(result.out.probs) - 1

\* a step whose draw equals the cumulative sum at the returned index, which
\* is not the first one
C8_Witness ==
  /\ result.op = "sampleStep"
  /\ \A j \in 1..Len(result.out.probs) : IsFinite(result.out.probs[j])
  /\ result.out.token >= 1
  /\ result.random > 0
  /\ C8_Cumulative(result.out.probs, result.out.token + 1) = result.random

\* C24: the index that the sampling step returns has a probability above 0
\* in the distribution of the step: its candidate logit was not set to
\* -Infinity and its probability is a number, for every draw, 0 included,
\* and every topK, 0 included.
C24_SampledTokenHasPositiveProbability ==
  result.op = "sampleStep"
  => LET at == result.out.token + 1
     IN  /\ result.out.candidateLogits[at] # NegInf
         /\ result.out.probs[at] # NaN

-----------------------------------------------------------------------------
(* Properties of the causal mask, checked under SpecMask *)

\* C10: generateCausalMask(n) holds 0 where j <= i and -Infinity where
\* j > i, and after the softmax a masked head gives weight exactly 0 to
\* every position j > i, whatever the scores are.
C10_CausalMaskZeroesFuture ==
  result.op = "attentionWeights"
  => LET n == Len(result.scaledScores)
     IN  /\ Len(result.mask) = n
         /\ \A i \in 1..n : Len(result.mask[i]) = n
         /\ \A i \in 1..n : \A j \in 1..n :
              result.mask[i][j] = IF j <= i THEN 0 ELSE NegInf
         /\ result.useCausalMask
            => \A i \in 1..n : \A j \in 1..n : j > i => result.weights[i][j] = 0

\* a masked head on scores whose first row peaks at a future position: that
\* position has weight 0 and the first one has all the weight
C10_Witness ==
  /\ result.op = "attentionWeights"
  /\ result.useCausalMask
  /\ Len(result.scaledScores) >= 2
  /\ result.scaledScores[1][2] > result.scaledScores[1][1]
  /\ result.weights[1][2] = 0
  /\ result.weights[1][1] > 0

\* C25: in a masked head every row i of the masked scores keeps its
\* diagonal entry as the scaled score it was, so no row that the softmax
\* receives is all -Infinity, and the weights of row i are a distribution
\* over the positions up to i: numbers from 0 to 1, none after i, adding
\* up to 1 within the rounding of the fixed-point division.
C25_EveryRowKeepsItsDiagonal ==
  (result.op = "attentionWeights" /\ result.useCausalMask)
  => LET n == Len(result.scaledScores)
     IN  /\ Len(result.maskedScores) = n /\ Len(result.weights) = n
         /\ \A i \in 1..n :
              LET row == result.maskedScores[i]
                  weights == result.weights[i]
              IN  /\ Len(row) = n /\ Len(weights) = n
                  /\ row[i] = result.scaledScores[i][i]
                  /\ row[i] # NegInf
                  /\ \E j \in 1..n : row[j] # NegInf
                  /\ \A j \in 1..n :
                       /\ weights[j] # NaN
                       /\ weights[j] >= 0 /\ weights[j] <= PScale
                       /\ j > i => weights[j] = 0
                  /\ SumSeq(SubSeq(weights, 1, i)) <= PScale
                  /\ SumSeq(SubSeq(weights, 1, i)) > PScale - i

\* a masked head over three positions: the first row has all its weight on
\* the diagonal, the last row spreads it over more than one position
C25_Witness ==
  /\ result.op = "attentionWeights"
  /\ result.useCausalMask
  /\ Len(result.scaledScores) = MaxMaskLen
  /\ result.maskedScores[1] = <<result.scaledScores[1][1]>> \o [j \in 1..(MaxMaskLen - 1) |-> NegInf]
  /\ result.weights[1][1] = PScale
  /\ \E j \in 1..(MaxMaskLen - 1) :
        /\ result.weights[MaxMaskLen][j] > 0
        /\ result.weights[MaxMaskLen][MaxMaskLen] > 0

-----------------------------------------------------------------------------
(* Properties of the math kernel, checked under SpecMatrix *)

\* C13: matrixMultiply(a, b) fails, and returns no matrix, whenever the
\* number of columns of a differs from the number of rows of b, be it
\* larger or smaller.
C13_MismatchedProductFails ==
  (result.op = "matrixMultiply" /\ Len(result.a[1]) # Len(result.b))
  => result.out.status # "ok"

-----------------------------------------------------------------------------
(* Properties of weight loading, checked under SpecWeights *)

\* the calls that only read the model
InferenceCalls == {"forward", "generateNextToken", "generate", "getParameterCount"}

ShapeOf(value) ==
  IF Len(value) = 0 THEN <<0>>
  ELSE IF IsArray(value[1]) THEN <<Len(value), Len(value[1])>>
  ELSE <<Len(value)>>

\* the shape that the configuration of the model gives the tensor at a place
ExpectedShape(gpt, place) ==
  CASE place.tensor = "embedding" -> <<gpt.vocabSize, gpt.dModel>>
    [] place.tensor = "positionEmbedding" -> <<gpt.maxSeqLen, gpt.dModel>>
    [] place.tensor \in {"gamma", "beta", "b2"} -> <<gpt.dModel>>
    [] place.tensor = "lmHead" -> <<gpt.dModel, gpt.vocabSize>>
    [] place.tensor = "lmBias" -> <<gpt.vocabSize>>
    [] place.tensor = "W_o" -> <<gpt.dModel, gpt.dModel>>
    [] place.tensor = "W1" -> <<gpt.dModel, gpt.dFF>>
    [] place.tensor = "b1" -> <<gpt.dFF>>
    [] place.tensor = "W2" -> <<gpt.dFF, gpt.dModel>>

\* a weights object that the model can take: no entry for a block that the
\* model does not have, and every tensor of the expected shape
Loadable(gpt, weights) ==
  \A a \in Supplied(weights) :
    /\ a.place.block <= gpt.numLayers
    /\ ShapeOf(a.given.value) = ExpectedShape(gpt, a.place)

\* C18: setWeights rejects a weights object with a tensor of the wrong shape
\* or with more block entries than the model has blocks, a call that does
\* not end normally leaves every weight of the model as it was, and after a
\* call that ends normally every supplied tensor, attention weights
\* included, is the tensor of the model at its place.
C18_LoadValidatesAndIsAllOrNothing ==
  result.op = "setWeights"
  => /\ ~Loadable(result.before, result.weights) => result.status # "ok"
     /\ result.status # "ok" => model = result.before
     /\ result.status = "ok"
        => \A a \in Supplied(result.weights) :
             TensorAt(model, a.place) = a.given.value

\* C19: a write by the caller into an array that it handed to setWeights
\* leaves every weight of the model as it was, and no array handed to
\* setWeights becomes the tensor of two places of the model.
C19_TensorsAreOwnedByTheirComponent ==
  /\ result.op = "givenWritten" => model = result.before
  /\ result.op = "setWeights"
     => \A a, b \in result.installed : a.id = b.id => a.place = b.place

-----------------------------------------------------------------------------
(* Properties of layer normalization, checked under SpecNorm *)

\* the result of forward on the one-row matrix <<features>>
NormOfVector(ln, features) == LayerNorm_forward(ln, <<features>>).value[1]

\* C20: forward on a matrix x with at least one row returns a matrix with
\* the row lengths of x, and forward on the batch <<x>> returns that matrix
\* as a batch of one; forward on a batch returns a batch of the same nesting
\* shape; in both conventions every output vector is what forward returns
\* for its input vector alone.
C20_TwoAndThreeDimensionsAgree ==
  result.op = "LayerNorm.forward"
  => /\ result.out.status = "ok"
     /\ Len(result.out.value) = Len(result.x)
     /\ result.rank = 2
        => /\ LayerNorm_forward(result.ln, <<result.x>>) = Ok(<<result.out.value>>)
           /\ \A s \in 1..Len(result.x) :
                /\ Len(result.out.value[s]) = Len(result.x[s])
                /\ result.out.value[s] = NormOfVector(result.ln, result.x[s])
     /\ result.rank = 3
        => \A b \in 1..Len(result.x) :
             /\ Len(result.out.value[b]) = Len(result.x[b])
             /\ \A s \in 1..Len(result.x[b]) :
                  /\ Len(result.out.value[b][s]) = Len(result.x[b][s])
                  /\ result.out.value[b][s] = NormOfVector(result.ln, result.x[b][s])

\* forward has normalized a matrix of two rows that differ, with gamma and
\* beta set, into two rows that differ
C20_Witness ==
  /\ result.op = "LayerNorm.forward"
  /\ result.rank = 2
  /\ Len(result.x) = 2
  /\ result.x[1] # result.x[2]
  /\ result.ln.gamma # Fill(ModelDim, 1)
  /\ result.out.status = "ok"
  /\ result.out.value[1] # result.out.value[2]
  /\ result.out.value # result.x

-----------------------------------------------------------------------------
(* Properties of forward calls, checked under SpecCausal *)

\* C16: the first p rows of the logits and of the hidden states that forward
\* returns for a token sequence are the rows that forward returns for the
\* first p tokens alone, for every p from 1 to the length of the sequence:
\* row i depends on tokens 0..i only, so two sequences that agree on their
\* first p tokens get the same first p rows, whatever follows and whatever
\* their lengths.
C16_RowsDependOnEarlierTokensOnly ==
  (result.op = "forward" /\ result.out.status = "ok")
  => \A p \in 1..Len(result.tokenIds) :
       LET prefix == GPT2_forward(model, SubSeq(result.tokenIds, 1, p), TRUE)
       IN  /\ prefix.status = "ok"
           /\ prefix.value.logits = SubSeq(result.out.value.logits, 1, p)
           /\ prefix.value.hiddenStates = SubSeq(result.out.value.hiddenStates, 1, p)

\* forward has run on two tokens through a transformer block, and another
\* last token would have changed the last row of the logits
C16_Witness ==
  /\ result.op = "forward"
  /\ result.out.status = "ok"
  /\ Len(result.tokenIds) = 2
  /\ model.numLayers >= 1
  /\ \E t \in 0..(model.vocabSize - 1) :
       LET other == GPT2_forward(model, <<result.tokenIds[1], t>>, TRUE)
       IN  /\ other.status = "ok"
           /\ other.value.logits[2] # result.out.value.logits[2]
           /\ other.value.logits[1] = result.out.value.logits[1]

\* C21: forward with returnLogits false returns logits, hiddenStates and
\* probabilities, the probabilities having one row per row of the logits,
\* each the softmax of that row; with returnLogits true it returns logits
\* and hiddenStates only; the call in the other mode on the same tokens
\* returns the same logits and the same hiddenStates.
C21_ProbabilitiesOnlyWhenAsked ==
  (result.op = "forward" /\ result.out.status = "ok")
  => LET value == result.out.value
         other == GPT2_forward(model, result.tokenIds, ~result.returnLogits)
     IN  /\ other.status = "ok"
         /\ other.value.logits = value.logits
         /\ other.value.hiddenStates = value.hiddenStates
         /\ result.returnLogits => DOMAIN value = {"logits", "hiddenStates"}
         /\ ~result.returnLogits
            => /\ DOMAIN value = {"logits", "probabilities", "hiddenStates"}
               /\ Len(value.probabilities) = Len(value.logits)
               /\ \A i \in 1..Len(value.logits) :
                    /\ Len(value.probabilities[i]) = Len(value.logits[i])
                    /\ value.probabilities[i] = softmax(value.logits[i])

\* forward has returned probabilities for two tokens on a model with a
\* transformer block, and they are not the logits
C21_Witness ==
  /\ result.op = "forward"
  /\ ~result.returnLogits
  /\ result.out.status = "ok"
  /\ Len(result.tokenIds) = 2
  /\ model.numLayers >= 1
  /\ result.out.value.probabilities # result.out.value.logits
  /\ \E j, k \in 1..model.vocabSize :
       result.out.value.probabilities[2][j] # result.out.value.probabilities[2][k]

-----------------------------------------------------------------------------
(* Properties of sequence lengths, checked under SpecLengths *)

\* C22: a sequence longer than maxSeqLen gets a sequence-too-long error from
\* the token embedding, from the learned and the sinusoidal positional
\* encoding and from forward; for a length up to maxSeqLen a positional
\* encoding returns the first seqLen rows of its table.
C22_TooLongFailsEverywhere ==
  /\ (result.op = "TokenEmbedding.forward" /\ Len(result.tokenIds) > model.maxSeqLen)
     => result.out.status = "SequenceTooLongError"
  /\ (result.op = "forward" /\ Len(result.tokenIds) > model.maxSeqLen)
     => result.out.status = "SequenceTooLongError"
  /\ result.op = "LearnedPositionalEncoding.forward"
     => IF result.seqLen > model.maxSeqLen
        THEN result.out.status = "SequenceTooLongError"
        ELSE result.out =
               Ok(SubSeq(model.positionalEncoding.positionEmbedding, 1, result.seqLen))
  /\ result.op = "SinusoidalPositionalEncoding.forward"
     => IF result.seqLen > result.pe.maxSeqLen
        THEN result.out.status = "SequenceTooLongError"
        ELSE result.out = Ok(SubSeq(result.pe.positionEncoding, 1, result.seqLen))

=============================================================================
